---- MODULE Spec2Model ----
(***************************************************************************)
(* A model of the 6TiSCH simulator kernel: the discrete-event engine       *)
(* (SimEngine.py), the TSCH link layer with its radio and the per-slot     *)
(* propagation (tsch.py, radio.py, Connectivity.py), the root's source     *)
(* routing (rpl.py, sixlowpan.py) and the 6P transaction table (sixp.py).  *)
(*                                                                         *)
(* Each subsystem has its own specification over its own group of          *)
(* variables; the other groups are left unchanged by its actions.          *)
(***************************************************************************)
EXTENDS Integers, Sequences, FiniteSets, TLC

VARIABLES
    \* ---- engine (SimEngine.py) ----
    asn,            \* SimEngine.asn
    events,         \* SimEngine.events: sequence of [asn, priority, cb, tag, id]
    goOn,           \* SimEngine.goOn
    enginePc,       \* position of run(): "init", "outer", "inner", "done", "error"
    engineErr,      \* the exception that ended run(), or "none"
    nextId,         \* history: number of events inserted so far (insertion order)
    nTasks,         \* history: number of scheduleAtAsn calls made by client code
    lastDispatch,   \* history: the last event popped and called, with goOn before the call
    lastCall,       \* history: the last scheduleAtAsn/removeEvent call, queue before and after
    removedIds,     \* history: ids of the events taken out by removeEvent
    dispatchedIds   \* history: ids of the events whose callback was called

VARIABLES
    \* ---- DAG root: RPL source routes and 6LoWPAN sendPacket ----
    parentChildfromDAOs,    \* Rpl.parentChildfromDAOs of the root: a dict child -> parent
    on_link_neighbor_list,  \* Sixlowpan.on_link_neighbor_list of the root
    rootPc,                 \* "running", "error" (an exception left sendPacket), "hang"
    lastSend                \* history: the last sendPacket of the root and how it ended

VARIABLES
    \* ---- TSCH, radio and propagation (tsch.py, radio.py, Connectivity.py) ----
    schedule,                   \* Tsch.schedule of every mote: slotOffset -> cell
    txQueue,                    \* Tsch.txQueue of every mote
    pktToSend,                  \* Tsch.pktToSend: Nil or <<packet>>
    waitingFor,                 \* Tsch.waitingFor: None, WAITING_FOR_TX, WAITING_FOR_RX
    backoff_exponent,           \* Tsch.backoff_exponent
    backoff_remaining_delay,    \* Tsch.backoff_remaining_delay
    radioState,                 \* Radio.state
    radioChannel,               \* Radio.channel: Nil or <<channel>>
    onGoingTransmission,        \* Radio.onGoingTransmission: Nil or <<[channel, packet]>>
    tschAsn,                    \* the ASN of the TSCH run
    tschPc,                     \* position in the slot: "stack" (the active cells are
                                \* done), "admin" (propagate is done), "error"
    tschErr,                    \* the exception that ended the run, or "none"
    nEnq,                       \* history: number of enqueue calls of the upper layers
    lastEnqueue,                \* history: the last enqueue call and its result
    lastProp                    \* history: transmissions, ACKs and drops of the last propagate

engineVars == <<asn, events, goOn, enginePc, engineErr, nextId, nTasks, lastDispatch,
                lastCall, removedIds, dispatchedIds>>

rootVars == <<parentChildfromDAOs, on_link_neighbor_list, rootPc, lastSend>>

tschVars == <<schedule, txQueue, pktToSend, waitingFor, backoff_exponent,
              backoff_remaining_delay, radioState, radioChannel,
              onGoingTransmission, tschAsn, tschPc, tschErr, nEnq,
              lastEnqueue, lastProp>>

\* 6P (sixp.py)
VARIABLES
    transaction_table,          \* per mote, SixP.transaction_table: key -> transaction
    seqnum_table,               \* per mote, SixP.seqnum_table: peer -> SeqNum
    sixpErr,                    \* "none" or the exception that ended the run
    nSixpOps,                   \* 6P operations done in the run
    lastAdd,                    \* history: the last creation of a transaction
    lastComplete,               \* history: the last completion of a transaction
    lastCallback                \* history: what the last send_request did

sixpVars == <<transaction_table, seqnum_table, sixpErr, nSixpOps, lastAdd,
              lastComplete, lastCallback>>

\* 6LoWPAN (sixlowpan.py)
VARIABLES
    fragmentation,              \* settings.fragmentation of the run
    discard_vrb_entry_policy,   \* settings.fragmentation_ff_discard_vrb_entry_policy
    next_datagram_tag,          \* per mote, Fragmentation.next_datagram_tag
    reassembly_buffers,         \* per mote: <<srcMac, tag>> -> reassembly buffer
    vrb_table,                  \* per mote: <<srcMac, tag>> -> VRB table entry
    lowpanQueue,                \* per mote: the frames handed to tsch.enqueue
    nDatagrams,                 \* sendPacket calls made in the run
    sentDatagrams,              \* history: <<srcMac, tag>> -> the packet fragmented
    timeExceeded,               \* history: <<mote, srcMac, tag>> of the first
                                \* fragments dropped with TIME_EXCEEDED
    lastLowpan                  \* history: what the last recvPacket did

lowpanVars == <<fragmentation, discard_vrb_entry_policy, next_datagram_tag,
                reassembly_buffers, vrb_table, lowpanQueue, nDatagrams,
                sentDatagrams, timeExceeded, lastLowpan>>

\* TSCH, one mote: its schedule with the statistics of the cells (tsch.py)
VARIABLES
    cellSchedule,               \* Tsch.schedule: slotOffset -> cell with numTx, ...
    cellTxQueue,                \* Tsch.txQueue
    cellPktToSend,              \* Tsch.pktToSend
    cellWaitingFor,             \* Tsch.waitingFor
    cellBackoff,                \* backoff_exponent and backoff_remaining_delay
    cellSlot,                   \* the slot offset of the current ASN
    cellErr,                    \* "none" or the exception that ended the run
    nCellOps,                   \* operations done in the run
    lastCell                    \* history: the last operation on the schedule

cellVars == <<cellSchedule, cellTxQueue, cellPktToSend, cellWaitingFor,
              cellBackoff, cellSlot, cellErr, nCellOps, lastCell>>

VARIABLES
    secjoin_enabled,            \* the setting secjoin_enabled
    pledge,                     \* the mote: dagRoot, isSync, join_proxy, schedule,
                                \* isJoined, _retransmission_count, _request_timeout
    joinTimer,                  \* ASN of the pending _retransmit_join_request event
    joinQueue,                  \* join requests waiting in the mote's TX queue
    joinResponses,              \* join responses on their way to the mote
    joinAsn,                    \* the engine's ASN
    joinSlotDone,               \* last ASN whose radio activity of the mote is over
    nJoinTicks,                 \* slots the engine went through one by one
    joinLog,                    \* history: the log lines of the mote, with their ASN
    lastEB,                     \* history: the last EB the mote created
    lastJoin                    \* history: the last handler run on the mote

joinVars == <<secjoin_enabled, pledge, joinTimer, joinQueue, joinResponses,
              joinAsn, joinSlotDone, nJoinTicks, joinLog, lastEB,
              lastJoin>>

VARIABLES
    legacyTxQueue,              \* legacy Mote.txQueue
    legacyPktToSend,            \* legacy Mote.pktToSend
    legacyWaitingFor,           \* legacy Mote.waitingFor
    legacyBackoff,              \* legacy Mote.backoff and Mote.backoffExponent
    legacyNextId,               \* the id of the next packet of the application
    nLegacyTx,                  \* transmissions of the run
    nLegacyEnq,                 \* packets the application made in the run
    lastLegacy                  \* history: the last operation of the legacy mote

legacyVars == <<legacyTxQueue, legacyPktToSend, legacyWaitingFor, legacyBackoff,
                legacyNextId, nLegacyTx, nLegacyEnq, lastLegacy>>

\* 6P exchanges (sixp.py)
VARIABLES
    txnTable,                   \* per mote, SixP.transaction_table
    txnSeqnum,                  \* per mote, SixP.seqnum_table
    txnQueue,                   \* per mote, the 6P packets of its TSCH TX queue
    txnAsn,                     \* the ASN of the engine
    txnErr,                     \* "none" or the exception that ended the run
    nTxnOps,                    \* steps done in the run
    lastTxn                     \* history: the last step

txnVars == <<txnTable, txnSeqnum, txnQueue, txnAsn, txnErr, nTxnOps, lastTxn>>

\* TSCH, one mote: its time correction (tsch.py)
VARIABLES
    syncAsn,                    \* the ASN of the engine
    asnLastSync,                \* Tsch.asnLastSync
    lastSync,                   \* history: the last txDone or rxDone
    offsetMotes,                \* engine.motes: per mote dagRoot, isSync,
                                \* asnLastSync, join_proxy, preferredParent, drift
    lastOffset                  \* history: the last computeTimeOffsetToDagRoot

offsetVars == <<offsetMotes, lastOffset>>

\* RPL, one mote: its parents (rpl.py)
VARIABLES
    rplState,                   \* Rpl.neighborRank, parentSet, preferredParent, rank
    lastRpl                     \* history: the last _housekeeping

rplVars == <<rplState, lastRpl>>

syncVars == <<syncAsn, asnLastSync, lastSync, offsetVars, rplVars>>

vars == <<engineVars, rootVars, tschVars, sixpVars, lowpanVars, cellVars, joinVars,
          legacyVars, txnVars, syncVars>>

\* the variable groups the actions of one subsystem leave alone
engineOthers == <<rootVars, tschVars, sixpVars, lowpanVars, cellVars, joinVars,
    legacyVars, txnVars, syncVars>>
rootOthers == <<engineVars, tschVars, sixpVars, lowpanVars, cellVars, joinVars,
    legacyVars, txnVars, syncVars>>
tschOthers == <<engineVars, rootVars, sixpVars, lowpanVars, cellVars, joinVars,
    legacyVars, txnVars, syncVars>>
sixpOthers == <<engineVars, rootVars, tschVars, lowpanVars, cellVars, joinVars,
    legacyVars, txnVars, syncVars>>
lowpanOthers == <<engineVars, rootVars, tschVars, sixpVars, cellVars, joinVars,
    legacyVars, txnVars, syncVars>>
cellOthers == <<engineVars, rootVars, tschVars, sixpVars, lowpanVars, joinVars,
    legacyVars, txnVars, syncVars>>
joinOthers == <<engineVars, rootVars, tschVars, sixpVars, lowpanVars, cellVars,
    legacyVars, txnVars, syncVars>>
legacyOthers == <<engineVars, rootVars, tschVars, sixpVars, lowpanVars, cellVars,
    joinVars, txnVars, syncVars>>
txnOthers == <<engineVars, rootVars, tschVars, sixpVars, lowpanVars, cellVars,
    joinVars, legacyVars, syncVars>>

(***************************************************************************)
(* Model bounds                                                            *)
(***************************************************************************)
NumMotes        == 3        \* settings.numMotes: the motes are 0..NumMotes-1
slotframeLength == 2        \* settings.slotframeLength of the engine runs
numCyclesPerRun == 1        \* settings.numCyclesPerRun of the engine runs
MaxTaskEvents   == 3        \* scheduleAtAsn calls made by client code in one run
MaxDelay        == 2        \* how far ahead client code schedules
tsch_slotframeLength == 2   \* settings.tsch_slotframeLength of the TSCH runs
phy_numChans    == 2        \* settings.phy_numChans
exec_numSlotframesPerRun == 5   \* slotframes of one TSCH run
MaxEnqueues     == 1        \* enqueue calls made by the upper layers in one run
MaxSixpOps      == 3        \* 6P operations of all motes in one run
MaxSeqNum       == 1        \* the SeqNum values the run reaches are 0..MaxSeqNum
LowpanNumMotes  == 4        \* motes of the 6LoWPAN runs, a line 3 - 2 - 1 - 0
MaxDatagrams    == 2        \* sendPacket calls of the sources in one run
tsch_max_payload_len == 2   \* settings.tsch_max_payload_len
sixlowpan_reassembly_buffers_num == 1   \* settings.sixlowpan_reassembly_buffers_num
fragmentation_ff_vrb_table_size == 1    \* settings.fragmentation_ff_vrb_table_size
IPV6_DEFAULT_HOP_LIMIT == 2 \* the hop limit sendPacket gives (64 in the simulator)
MaxCellOps      == 6        \* schedule, enqueue and slot operations of one run
NearHalving     == 254      \* transmissions made in a cell before the run
MaxJoinAsn      == 34       \* the last ASN of a secure-join run
MaxJoinTicks    == 5        \* slots of a run that end before the join timer is due
MaxJoinQueue    == 2        \* join requests the TX queue of the mote holds
MaxJoinResponses == 2       \* join responses on their way to the mote at once
MaxGiveUpAsn    == 64       \* the last ASN of a run of an unanswered pledge
MaxGiveUpEBs    == 2        \* EBs the pledge hears after the first one
MaxSyncAsn      == 6        \* the last ASN of a run of the time correction
OffsetNumMotes  == 4        \* motes of the network whose clock offsets are computed
RplNumNeighbors == 3        \* neighbours the mote hears DIOs from
MaxLegacyTx     == 8        \* transmissions of the legacy mote in one run
MaxLegacyEnqueues == 2      \* packets the legacy application makes in one run
MaxTxnOps       == 6        \* steps of one run of 6P exchanges
TxnShortTimeout == 3        \* a timeout_value of the scheduling function, in slots

(***************************************************************************)
(* Values shared by the layers                                             *)
(***************************************************************************)
None == "None"

Motes == 0..(NumMotes - 1)

\* mote 0 is the DAG root
DagRoot == 0

\* intra-slot order of the event kinds
INTRASLOTORDER_STARTSLOT  == 0
INTRASLOTORDER_STACKTASKS == 1
INTRASLOTORDER_PROPAGATE  == 2
INTRASLOTORDER_ADMINTASKS == 3

\* the orders client tasks are scheduled with
IntraSlotOrders == {INTRASLOTORDER_STACKTASKS, INTRASLOTORDER_ADMINTASKS}

\* unique tags of the client tasks; None is "no uniqueTag"
TaskTags == {"t1"}
PropagateTag == "Connectivity.propagate"
EndSimTag == "_actionEndSim"

\* ASN of the end-of-simulation event (run(), SimEngine.py:101)
EndAsn == slotframeLength * numCyclesPerRun

(***************************************************************************)
(* SimEngine: the event queue                                              *)
(***************************************************************************)

\* (asn, priority, id) of e1 is not after that of e2
EventLeq(e1, e2) ==
    \/ e1.asn < e2.asn
    \/ e1.asn = e2.asn /\ e1.priority < e2.priority
    \/ e1.asn = e2.asn /\ e1.priority = e2.priority /\ e1.id <= e2.id

\* removeEvent: drop every event carrying uniqueTag, except (exceptCurrentASN)
\* those scheduled at the current ASN
removeEvent(evs, uniqueTag, exceptCurrentASN, curAsn) ==
    SelectSeq(evs, LAMBDA e :
        ~(e.tag = uniqueTag /\ ~(exceptCurrentASN /\ e.asn = curAsn)))

\* mutant: the current ASN's events are taken out too
removeEventCall_all(evs, uniqueTag, curAsn) ==
    removeEvent(evs, uniqueTag, FALSE, curAsn)

\* removeEvent as every caller under src/ calls it: exceptCurrentASN is left
\* at its default, True
removeEventCall(evs, uniqueTag, curAsn) ==
    removeEvent(evs, uniqueTag, TRUE, curAsn)

\* mutant: the request may name the current ASN
scheduleAssert_geq(a, curAsn) == a >= curAsn

\* scheduleAtAsn's "assert asn>self.asn"
scheduleAssert(a, curAsn) == a > curAsn

\* mutant: a new event goes before the events of its own priority
insertSkips_lifo(e, a, priority) ==
    e.asn < a \/ (e.asn = a /\ e.priority < priority)

\* the loop condition of scheduleAtAsn's search: the events the new one goes after
insertSkips(e, a, priority) ==
    e.asn < a \/ (e.asn = a /\ e.priority <= priority)

\* "while i<len(self.events) and (...): i += 1", i counted from 0
RECURSIVE insertIndex(_, _, _, _)
insertIndex(evs, a, priority, i) ==
    IF i < Len(evs) /\ insertSkips(evs[i + 1], a, priority)
    THEN insertIndex(evs, a, priority, i + 1)
    ELSE i

\* self.events.insert(i, ev)
insertAt(evs, i, ev) ==
    SubSeq(evs, 1, i) \o <<ev>> \o SubSeq(evs, i + 1, Len(evs))

\* scheduleAtAsn past its assertion: the queue it leaves
scheduleAtAsn(evs, curAsn, a, cb, uniqueTag, priority, id) ==
    LET evs1 == IF uniqueTag # None
                THEN removeEventCall(evs, uniqueTag, curAsn)
                ELSE evs
        i    == insertIndex(evs1, a, priority, 0)
    IN  insertAt(evs1, i, [asn |-> a, priority |-> priority, cb |-> cb,
                           tag |-> uniqueTag, id |-> id])

\* the ids of the events of evs
IdsOf(evs) == {evs[i].id : i \in 1..Len(evs)}

\* history record of one scheduleAtAsn or removeEvent call
Call(op, a, uniqueTag, curAsn, result, before, after) ==
    [op |-> op, asn |-> a, tag |-> uniqueTag, curAsn |-> curAsn,
     result |-> result, before |-> before, after |-> after]

NoCall == Call(None, 0, None, 0, None, <<>>, <<>>)

NoEvent == [asn |-> 0, priority |-> 0, cb |-> None, tag |-> None, id |-> 0]
NoDispatch == [ev |-> NoEvent, goOnBefore |-> TRUE, asnBefore |-> 0]

TaskBudgetLeft == nTasks < MaxTaskEvents

EngineInit ==
    /\ asn = 0
    \* ConnectivityBase.__init__ schedules the first propagate at ASN 1
    /\ events = <<[asn |-> 1, priority |-> INTRASLOTORDER_PROPAGATE,
                   cb |-> "propagate", tag |-> PropagateTag, id |-> 1]>>
    /\ goOn = TRUE
    /\ enginePc = "init"
    /\ engineErr = "none"
    /\ nextId = 1
    /\ nTasks = 0
    /\ lastDispatch = NoDispatch
    /\ lastCall = NoCall
    /\ removedIds = {}
    /\ dispatchedIds = {}

\* a client's call of scheduleAtAsn(a, task, uniqueTag, priority): the new
\* values of the queue, of the position of run() and of the history
ClientSchedule(evs, a, uniqueTag, priority) ==
    /\ nTasks' = nTasks + 1
    /\ IF scheduleAssert(a, asn)
       THEN LET after == scheduleAtAsn(evs, asn, a, "task", uniqueTag,
                                       priority, nextId + 1)
            IN  /\ events' = after
                /\ nextId' = nextId + 1
                /\ removedIds' = removedIds \cup (IdsOf(evs) \ IdsOf(after))
                /\ lastCall' = Call("scheduleAtAsn", a, uniqueTag, asn, "ok",
                                    evs, after)
                /\ UNCHANGED <<enginePc, engineErr>>
       ELSE /\ events' = evs
            /\ enginePc' = "error"
            /\ engineErr' = "AssertionError"
            /\ lastCall' = Call("scheduleAtAsn", a, uniqueTag, asn,
                                "AssertionError", evs, evs)
            /\ UNCHANGED <<nextId, removedIds>>

\* a client's call of removeEvent(uniqueTag)
ClientRemove(evs, uniqueTag) ==
    LET after == removeEventCall(evs, uniqueTag, asn)
    IN  /\ events' = after
        /\ removedIds' = removedIds \cup (IdsOf(evs) \ IdsOf(after))
        /\ lastCall' = Call("removeEvent", 0, uniqueTag, asn, "ok", evs, after)
        /\ UNCHANGED <<nextId, nTasks, enginePc, engineErr>>

\* SimEngine.__init__: a mote's boot() schedules its first task
BootSchedule ==
    /\ enginePc = "init"
    /\ TaskBudgetLeft
    /\ \E a \in 0..MaxDelay, t \in TaskTags \cup {None}, p \in IntraSlotOrders :
           ClientSchedule(events, a, t, p)
    /\ UNCHANGED <<asn, goOn, lastDispatch, dispatchedIds, engineOthers>>

\* run(): schedule the end of the simulation, enter the loop
RunStart ==
    /\ enginePc = "init"
    /\ LET after == scheduleAtAsn(events, asn, EndAsn, "_actionEndSim",
                                  EndSimTag, 0, nextId + 1)
       IN  /\ events' = after
           /\ removedIds' = removedIds \cup (IdsOf(events) \ IdsOf(after))
    /\ nextId' = nextId + 1
    /\ enginePc' = "outer"
    /\ UNCHANGED <<asn, goOn, engineErr, nTasks, lastDispatch, lastCall,
                   dispatchedIds, engineOthers>>

\* run(): one pass of "while self.goOn" up to the inner loop
RunOuter ==
    /\ enginePc = "outer"
    /\ IF ~goOn \/ events = <<>>
       THEN /\ enginePc' = "done"
            /\ UNCHANGED <<asn, engineErr>>
       ELSE IF ~(Head(events).asn >= asn)
       THEN /\ enginePc' = "error"
            /\ engineErr' = "AssertionError"
            /\ UNCHANGED asn
       ELSE /\ asn' = Head(events).asn
            /\ enginePc' = "inner"
            /\ UNCHANGED engineErr
    /\ UNCHANGED <<events, goOn, nextId, nTasks, lastDispatch, lastCall,
                   removedIds, dispatchedIds, engineOthers>>

\* run(): "if self.events[0][0]!=self.asn: break"; events[0] of an empty
\* queue raises IndexError
RunInnerBreak ==
    /\ enginePc = "inner"
    /\ IF events = <<>>
       THEN /\ enginePc' = "error"
            /\ engineErr' = "IndexError"
       ELSE /\ Head(events).asn # asn
            /\ enginePc' = "outer"
            /\ UNCHANGED engineErr
    /\ UNCHANGED <<asn, events, goOn, nextId, nTasks, lastDispatch, lastCall,
                   removedIds, dispatchedIds, engineOthers>>

\* what every dispatch does: pop the head and record it
Popped(cb) ==
    /\ enginePc = "inner"
    /\ events # <<>>
    /\ Head(events).asn = asn
    /\ Head(events).cb = cb
    /\ lastDispatch' = [ev |-> Head(events), goOnBefore |-> goOn,
                        asnBefore |-> asn]
    /\ dispatchedIds' = dispatchedIds \cup {Head(events).id}

\* run() pops _actionEndSim and calls it
DispatchEndSim ==
    /\ Popped("_actionEndSim")
    /\ events' = Tail(events)
    /\ goOn' = FALSE
    /\ UNCHANGED <<asn, enginePc, engineErr, nextId, nTasks, lastCall,
                   removedIds, engineOthers>>

\* run() pops Connectivity.propagate and calls it: it ends by scheduling
\* itself at the next ASN
DispatchPropagate ==
    /\ Popped("propagate")
    /\ LET evs   == Tail(events)
           after == scheduleAtAsn(evs, asn, asn + 1, "propagate", PropagateTag,
                                  INTRASLOTORDER_PROPAGATE, nextId + 1)
       IN  /\ events' = after
           /\ removedIds' = removedIds \cup (IdsOf(evs) \ IdsOf(after))
    /\ nextId' = nextId + 1
    /\ UNCHANGED <<asn, goOn, enginePc, engineErr, nTasks, lastCall,
                   engineOthers>>

\* run() pops a client task and calls it; the task schedules an event
DispatchTaskSchedule ==
    /\ Popped("task")
    /\ TaskBudgetLeft
    /\ \E a \in asn..(asn + MaxDelay), t \in TaskTags \cup {None},
          p \in IntraSlotOrders :
           ClientSchedule(Tail(events), a, t, p)
    /\ UNCHANGED <<asn, goOn, engineOthers>>

\* run() pops a client task and calls it; the task cancels a tag
DispatchTaskRemove ==
    /\ Popped("task")
    /\ \E t \in TaskTags : ClientRemove(Tail(events), t)
    /\ UNCHANGED <<asn, goOn, engineOthers>>

\* run() pops a client task and calls it; the task leaves the queue alone
DispatchTaskPlain ==
    /\ Popped("task")
    /\ events' = Tail(events)
    /\ UNCHANGED <<asn, goOn, enginePc, engineErr, nextId, nTasks, lastCall,
                   removedIds, engineOthers>>

EngineNext ==
    \/ BootSchedule
    \/ RunStart
    \/ RunOuter
    \/ RunInnerBreak
    \/ DispatchEndSim
    \/ DispatchPropagate
    \/ DispatchTaskSchedule
    \/ DispatchTaskRemove
    \/ DispatchTaskPlain

(***************************************************************************)
(* The DAG root: Rpl.computeSourceRoute and Sixlowpan.sendPacket           *)
(***************************************************************************)

Reverse(s) == [i \in 1..Len(s) |-> s[Len(s) + 1 - i]]

InSeq(x, s) == \E i \in 1..Len(s) : s[i] = x

\* the loop of computeSourceRoute: "while cur_id!=0"; a key missing from the
\* table raises NoSourceRouteError. A mote met twice is met for ever: the loop
\* never ends.
RECURSIVE walkSourceRoute(_, _, _)
walkSourceRoute(table, cur_id, sourceRoute) ==
    IF cur_id = 0
    THEN [kind |-> "route", route |-> Reverse(sourceRoute)]
    ELSE IF InSeq(cur_id, sourceRoute)
    THEN [kind |-> "diverges", route |-> <<>>]
    ELSE IF cur_id \notin DOMAIN table
    THEN [kind |-> "NoSourceRouteError", route |-> <<>>]
    ELSE walkSourceRoute(table, table[cur_id], Append(sourceRoute, cur_id))

computeSourceRoute(table, dest_id) == walkSourceRoute(table, dest_id, <<>>)

\* Sixlowpan._find_nexthop_mac_addr on the DAG root for a unicast destination:
\* the set holding the next hop's address, empty when the code returns None
find_nexthop_mac_addr_root(neighbors, dstIp) ==
    IF dstIp \in neighbors THEN {dstIp} ELSE {}

\* Sixlowpan.sendPacket on the DAG root, source address not link-local: how
\* the call ends for destination dstIp
sendPacketRoot(table, neighbors, dstIp) ==
    LET sr == computeSourceRoute(table, dstIp)
    IN  IF sr.kind = "diverges" THEN "hang"
        ELSE IF sr.kind = "NoSourceRouteError" THEN "NoSourceRouteError"
        ELSE IF sr.kind = "None" THEN "dropped_NO_ROUTE"
        ELSE IF ~(1 <= Len(sr.route)) THEN "AssertionError"
        ELSE IF find_nexthop_mac_addr_root(neighbors, Head(sr.route)) = {}
        THEN "dropped_NO_ROUTE"
        ELSE "enqueued"

NoSend == [dstIp |-> 0, route |-> None, outcome |-> None]

RootIdle ==
    /\ parentChildfromDAOs = [m \in {} |-> 0]
    /\ on_link_neighbor_list = {}
    /\ rootPc = "running"
    /\ lastSend = NoSend

\* Rpl.action_receiveDAO on the root: addParentChildfromDAOs
ReceiveDAO ==
    /\ rootPc = "running"
    /\ \E child \in Motes \ {DagRoot} : \E parent \in Motes \ {child} :
           parentChildfromDAOs' =
               [m \in DOMAIN parentChildfromDAOs \cup {child} |->
                   IF m = child THEN parent ELSE parentChildfromDAOs[m]]
    /\ UNCHANGED <<on_link_neighbor_list, rootPc, lastSend, rootOthers>>

\* Sixlowpan.recvPacket on the root: the sender becomes an on-link neighbor
RootRecvPacket ==
    /\ rootPc = "running"
    /\ \E n \in Motes \ {DagRoot} :
           on_link_neighbor_list' = on_link_neighbor_list \cup {n}
    /\ UNCHANGED <<parentChildfromDAOs, rootPc, lastSend, rootOthers>>

\* the root sends a packet to a mote of the network
RootSendPacket ==
    /\ rootPc = "running"
    /\ \E dstIp \in Motes \ {DagRoot} :
           LET out == sendPacketRoot(parentChildfromDAOs, on_link_neighbor_list,
                                     dstIp)
           IN  /\ lastSend' = [dstIp |-> dstIp,
                               route |-> computeSourceRoute(parentChildfromDAOs,
                                                            dstIp).kind,
                               outcome |-> out]
               /\ rootPc' = IF out = "hang" THEN "hang"
                            ELSE IF out \in {"NoSourceRouteError", "AssertionError"}
                            THEN "error"
                            ELSE "running"
    /\ UNCHANGED <<parentChildfromDAOs, on_link_neighbor_list, rootOthers>>

RootNext ==
    \/ ReceiveDAO
    \/ RootRecvPacket
    \/ RootSendPacket

EngineIdle ==
    /\ asn = 0
    /\ events = <<>>
    /\ goOn = TRUE
    /\ enginePc = "init"
    /\ engineErr = "none"
    /\ nextId = 0
    /\ nTasks = 0
    /\ lastDispatch = NoDispatch
    /\ lastCall = NoCall
    /\ removedIds = {}
    /\ dispatchedIds = {}

(***************************************************************************)
(* TSCH: schedule, TX queue, backoff (tsch.py)                             *)
(***************************************************************************)
TSCH_QUEUE_SIZE           == 10
TSCH_MAXTXRETRIES         == 5
TSCH_MIN_BACKOFF_EXPONENT == 2
TSCH_MAX_BACKOFF_EXPONENT == 4
BROADCAST_ADDRESS         == 65535

\* Python's None where the other values are a packet, a neighbor or a channel
Nil == <<>>

CELLOPTION_TX     == "TX"
CELLOPTION_RX     == "RX"
CELLOPTION_SHARED == "SHARED"

WAITING_FOR_TX == "waiting_for_tx"
WAITING_FOR_RX == "waiting_for_rx"

\* the radio's states; radio.py names its resting state RADIO_STATE_IDLE,
\* Connectivity.py asserts RADIO_STATE_OFF: one resting state beside TX and RX
RADIO_STATE_OFF  == "off"
RADIO_STATE_TX   == "tx"
RADIO_STATE_RX   == "rx"
RADIO_STATE_IDLE == RADIO_STATE_OFF

\* the frame types the upper layers hand to enqueue
EnqueuedTypes == {"DATA", "FRAG", "JOIN_REQUEST", "JOIN_RESPONSE", "DAO", "SIXP"}

\* the frames a mote makes for the minimal cell; they never enter a TX queue
BeaconTypes == {"EB", "DIO"}

Tsch_MINIMAL_SHARED_CELL ==
    [neighbor |-> Nil, channelOffset |-> 0,
     cellOptions |-> {CELLOPTION_TX, CELLOPTION_RX, CELLOPTION_SHARED}]

\* Tsch._getCells with cellOptions given: the slot offsets of the cells with
\* exactly these options and, when a neighbor is given, this neighbor
getCells(sched, neighbor, cellOptions) ==
    {so \in DOMAIN sched :
        /\ sched[so].cellOptions = cellOptions
        /\ (neighbor = Nil \/ sched[so].neighbor = neighbor)}

\* mutant: the mote finds no dedicated TX cell
getTxCells_none(sched, neighbor) == {}

getTxCells(sched, neighbor) == getCells(sched, neighbor, {CELLOPTION_TX})

getTxRxSharedCells(sched, neighbor) ==
    getCells(sched, neighbor,
             {CELLOPTION_TX, CELLOPTION_RX, CELLOPTION_SHARED})

\* mutant: the queue takes one frame more than TSCH_QUEUE_SIZE
txQueueFull_gt(q) == Len(q) > TSCH_QUEUE_SIZE

\* enqueue's "len(self.txQueue) >= d.TSCH_QUEUE_SIZE"
txQueueFull(q) == Len(q) >= TSCH_QUEUE_SIZE

\* a frame as enqueue stores it; txdone_noack is history: the number of
\* tsch.txdone events with isACKed=false logged for the frame
Frame(type, dstMac) ==
    [type |-> type, dstMac |-> dstMac, retriesLeft |-> TSCH_MAXTXRETRIES,
     txdone_noack |-> 0]

\* Tsch.enqueue: what it returns, the drop it reports and the queue it leaves
enqueue(sched, q, type, dstMac) ==
    IF txQueueFull(q)
    THEN [goOn |-> FALSE, reason |-> "TXQUEUE_FULL", queue |-> q]
    ELSE IF getTxCells(sched, Nil) = {} /\ getTxRxSharedCells(sched, Nil) = {}
    THEN [goOn |-> FALSE, reason |-> "NO_TX_CELLS", queue |-> q]
    ELSE [goOn |-> TRUE, reason |-> None,
          queue |-> Append(q, Frame(type, dstMac))]

\* "for pkt in self.txQueue: if ...: break": the first of the indices of the
\* frames that satisfy the test, 0 when there is none
FirstIndex(indices) ==
    IF indices = {} THEN 0
    ELSE CHOOSE i \in indices : \A j \in indices : i <= j

\* list.remove(x): the list without its element at index i
RemoveAt(q, i) == SubSeq(q, 1, i - 1) \o SubSeq(q, i + 1, Len(q))

\* Tsch._is_retransmission
is_retransmission(packet) == packet.retriesLeft < TSCH_MAXTXRETRIES

\* Tsch._update_backoff_state: the new exponent and whether a new delay is
\* drawn (_reset_backoff_state, _increase_backoff_state), queueLen being
\* len(self.getTxQueue()) when txDone calls it
update_backoff_state(be, isRetransmission, isSharedLink, isTXSuccess, queueLen) ==
    LET reset    == [exponent |-> TSCH_MIN_BACKOFF_EXPONENT, draws |-> TRUE]
        increase == [exponent |-> IF be + 1 < TSCH_MAX_BACKOFF_EXPONENT
                                  THEN be + 1
                                  ELSE TSCH_MAX_BACKOFF_EXPONENT,
                     draws |-> TRUE]
        same     == [exponent |-> be, draws |-> FALSE]
    IN  IF isSharedLink
        THEN IF isTXSuccess THEN reset
             ELSE IF isRetransmission THEN increase
             ELSE reset
        ELSE IF isTXSuccess /\ queueLen = 0 THEN reset
        ELSE same

\* Tsch.txDone for the unicast or broadcast frame pkt sent in cell: the queue,
\* the backoff state and the drop it leaves; delay is the value
\* _decide_backoff_delay draws when it is called
txDone(q, pkt, cell, be, remaining, isACKed, delay) ==
    IF pkt.dstMac = BROADCAST_ADDRESS
    THEN [txQueue |-> q, backoff_exponent |-> be,
          backoff_remaining_delay |-> remaining, drop |-> Nil]
    ELSE LET bo == update_backoff_state(be, is_retransmission(pkt),
                       CELLOPTION_SHARED \in cell.cellOptions, isACKed, Len(q))
             i  == FirstIndex({j \in 1..Len(q) : q[j] = pkt})
             after == [pkt EXCEPT !.retriesLeft = @ - 1, !.txdone_noack = @ + 1]
         IN  [txQueue |->
                  IF isACKed THEN RemoveAt(q, i)
                  ELSE IF after.retriesLeft = 0 THEN RemoveAt(q, i)
                  ELSE [q EXCEPT ![i] = after],
              backoff_exponent |-> bo.exponent,
              backoff_remaining_delay |-> IF bo.draws THEN delay ELSE remaining,
              drop |-> IF ~isACKed /\ after.retriesLeft = 0
                       THEN <<[frame |-> after, reason |-> "MAX_RETRIES"]>>
                       ELSE Nil]

\* mutant: a broadcast frame is acknowledged like a unicast frame
rxDone_isACKed_bcast(packet, me) ==
    packet # Nil /\ packet[1].dstMac \in {BROADCAST_ADDRESS, me}

\* Tsch.rxDone: its return value, "isACKed", for mote me
rxDone_isACKed(packet, me) ==
    IF packet = Nil THEN FALSE
    ELSE IF packet[1].dstMac \notin {BROADCAST_ADDRESS, me} THEN FALSE
    ELSE IF packet[1].dstMac = me THEN TRUE
    ELSE FALSE

\* mutant: the radio stays as it was when the reception ends
radio_rxDone_state_keep(state) == state

\* Radio.rxDone: the state it leaves the radio in
radio_rxDone_state(state) == RADIO_STATE_IDLE

\* Tsch._tsch_action_active_cell of a mote with schedule sched, on cell, with
\* TX queue q: the frame it sends, its backoff delay and what it asks of the
\* radio. beacon is the EB or DIO the mote makes when it has nothing to send
\* on the minimal cell (Nil when it makes none).
tsch_action_active_cell(sched, cell, q, remaining, beacon) ==
    LET shared == cell.neighbor = Nil
        i == IF shared
             THEN FirstIndex({j \in 1..Len(q) :
                      \/ q[j].type \in BeaconTypes
                      \/ /\ getTxCells(sched, <<q[j].dstMac>>) = {}
                         /\ getTxRxSharedCells(sched, <<q[j].dstMac>>) = {}})
             ELSE FirstIndex({j \in 1..Len(q) : <<q[j].dstMac>> = cell.neighbor})
        waits == /\ i # 0
                 /\ shared \/ CELLOPTION_SHARED \in cell.cellOptions
                 /\ is_retransmission(q[i])
                 /\ remaining > 0
        found == IF i # 0 /\ ~waits THEN <<q[i]>> ELSE Nil
        pkt == IF shared
               THEN IF found = Nil THEN beacon ELSE found
               ELSE IF CELLOPTION_TX \in cell.cellOptions THEN found ELSE Nil
    IN  [pktToSend |-> pkt,
         backoff_remaining_delay |-> IF waits THEN remaining - 1 ELSE remaining,
         radio |-> IF shared /\ cell.cellOptions # Tsch_MINIMAL_SHARED_CELL.cellOptions
                   THEN "NotImplementedError"
                   ELSE IF pkt # Nil THEN RADIO_STATE_TX
                   ELSE IF CELLOPTION_RX \in cell.cellOptions THEN RADIO_STATE_RX
                   ELSE RADIO_STATE_IDLE]

(***************************************************************************)
(* Connectivity.propagate                                                  *)
(***************************************************************************)

\* ConnectivityBase._get_listeners
get_listeners(st, channel) ==
    {m \in Motes : st.radioState[m] = RADIO_STATE_RX
                   /\ st.radioChannel[m] = <<channel>>}

\* "list all transmissions at that frequency": their sources
alltransmissions(st, channel) ==
    {m \in Motes : /\ st.onGoingTransmission[m] # Nil
                   /\ st.onGoingTransmission[m][1].channel = channel}

\* one pass of propagate's "for channel in range(phy_numChans)" over the state
\* st. heard[l] is the source of the frame listener l locks on and receives
\* (Nil: nothing to hear, or the frame is lost); draw[t] is the backoff delay
\* transmitter t draws if its txDone draws one.
propagateChannel(st, channel, heard, draw, sched, slot) ==
    LET L == get_listeners(st, channel)
        T == alltransmissions(st, channel)
        packet(t) == st.onGoingTransmission[t][1].packet
        ackers(t) == {l \in L : /\ heard[l] = <<t>>
                                /\ rxDone_isACKed(<<packet(t)>>, l)}
        \* the transmitters whose txDone is called: "numACKs" above 1 raises
        D == {t \in T : \A u \in T : u <= t => Cardinality(ackers(u)) <= 1}
        td(t) == txDone(st.txQueue[t], packet(t), sched[t][slot],
                        st.backoff_exponent[t], st.backoff_remaining_delay[t],
                        Cardinality(ackers(t)) = 1, draw[t])
        rs == [m \in Motes |->
                  IF m \in L THEN radio_rxDone_state(st.radioState[m])
                  ELSE IF m \in D THEN RADIO_STATE_IDLE
                  ELSE st.radioState[m]]
        rc == [m \in Motes |-> IF m \in L \cup D THEN Nil ELSE st.radioChannel[m]]
    IN  [radioState |-> rs,
         radioChannel |-> rc,
         onGoingTransmission |->
             [m \in Motes |-> IF m \in D THEN Nil ELSE st.onGoingTransmission[m]],
         waitingFor |->
             [m \in Motes |-> IF m \in L \cup D THEN None ELSE st.waitingFor[m]],
         pktToSend |->
             [m \in Motes |-> IF m \in D THEN Nil ELSE st.pktToSend[m]],
         txQueue |->
             [m \in Motes |-> IF m \in D THEN td(m).txQueue ELSE st.txQueue[m]],
         backoff_exponent |->
             [m \in Motes |-> IF m \in D THEN td(m).backoff_exponent
                              ELSE st.backoff_exponent[m]],
         backoff_remaining_delay |->
             [m \in Motes |-> IF m \in D THEN td(m).backoff_remaining_delay
                              ELSE st.backoff_remaining_delay[m]],
         tx    |-> [m \in Motes |-> IF m \in T THEN <<packet(m).dstMac>>
                                   ELSE st.tx[m]],
         acks  |-> [m \in Motes |-> IF m \in T THEN ackers(m) ELSE st.acks[m]],
         done  |-> st.done \cup L \cup D,
         drops |-> st.drops \cup {td(t).drop[1] : t \in {u \in D : td(u).drop # Nil}},
         err   |-> IF D # T THEN "SystemError"
                   ELSE IF \E m \in Motes : rs[m] # RADIO_STATE_OFF \/ rc[m] # Nil
                   THEN "AssertionError"
                   ELSE "none"]

\* the channels from channel on, in order; an exception ends the loop
RECURSIVE propagate(_, _, _, _, _, _)
propagate(st, channel, heard, draw, sched, slot) ==
    IF channel = phy_numChans THEN st
    ELSE LET st1 == propagateChannel(st, channel, heard, draw, sched, slot)
         IN  IF st1.err # "none" THEN st1
             ELSE propagate(st1, channel + 1, heard, draw, sched, slot)

\* rssi above phy_minRssi: every mote hears every other mote
Audible(src, dst) == src # dst

\* history of one enqueue call
NoEnqueue == [mote |-> 0, type |-> None, goOn |-> TRUE, reason |-> None,
              wasFull |-> FALSE, unchanged |-> FALSE]

\* history of one propagate: per source the destination of its frame and the
\* listeners that acknowledged it, the motes whose rxDone or txDone was
\* called, the drops txDone reported
NoProp == [tx |-> [m \in Motes |-> Nil], acks |-> [m \in Motes |-> {}],
           done |-> {}, drops |-> {}]

\* what every TSCH specification starts from, but for schedule and txQueue:
\* ASN 0 is over, nothing was sent in it
TschBoot ==
    /\ pktToSend = [m \in Motes |-> Nil]
    /\ waitingFor = [m \in Motes |-> None]
    /\ backoff_exponent = [m \in Motes |-> TSCH_MIN_BACKOFF_EXPONENT]
    /\ backoff_remaining_delay = [m \in Motes |-> 0]
    /\ radioState = [m \in Motes |-> RADIO_STATE_IDLE]
    /\ radioChannel = [m \in Motes |-> Nil]
    /\ onGoingTransmission = [m \in Motes |-> Nil]
    /\ tschAsn = 0
    /\ tschPc = "admin"
    /\ tschErr = "none"
    /\ nEnq = 0
    /\ lastEnqueue = NoEnqueue
    /\ lastProp = NoProp

\* no mote has joined: empty schedules, empty queues
TschIdle ==
    /\ TschBoot
    /\ schedule = [m \in Motes |-> <<>>]
    /\ txQueue = [m \in Motes |-> <<>>]

\* every mote has the minimal cell; mote 2 has a dedicated TX cell to the root
\* at slot offset 1, on a channel offset its scheduling function drew; the
\* application of mote 1 has filled its TX queue with frames for the root
TschInit ==
    /\ TschBoot
    /\ \E ch \in 0..(phy_numChans - 1) :
           schedule = [m \in Motes |->
               IF m = 0
               THEN (0 :> Tsch_MINIMAL_SHARED_CELL) @@
                    (1 :> [neighbor |-> <<2>>, channelOffset |-> ch,
                           cellOptions |-> {CELLOPTION_RX}])
               ELSE IF m = 2
               THEN (0 :> Tsch_MINIMAL_SHARED_CELL) @@
                    (1 :> [neighbor |-> <<0>>, channelOffset |-> ch,
                           cellOptions |-> {CELLOPTION_TX}])
               ELSE (0 :> Tsch_MINIMAL_SHARED_CELL)]
    /\ txQueue = [m \in Motes |->
           IF m = 1 THEN [i \in 1..TSCH_QUEUE_SIZE |-> Frame("DATA", 0)]
           ELSE <<>>]

\* the ASN of the end of the run
TschEndAsn == exec_numSlotframesPerRun * tsch_slotframeLength

\* the engine moves to the next ASN and dispatches the active cell of every
\* mote that has one at this slot offset
TschSlotStart ==
    /\ tschPc = "admin"
    /\ tschAsn < TschEndAsn
    /\ tschAsn' = tschAsn + 1
    /\ LET slot == (tschAsn + 1) % tsch_slotframeLength
           Active == {m \in Motes : slot \in DOMAIN schedule[m]}
           Beacons == {Nil} \cup {<<[type |-> t, dstMac |-> BROADCAST_ADDRESS]>> :
                                     t \in BeaconTypes}
       IN  \E beacon \in [Active -> Beacons] :
           \E r \in {[m \in Active |->
                         tsch_action_active_cell(schedule[m], schedule[m][slot],
                             txQueue[m], backoff_remaining_delay[m], beacon[m])]} :
           LET on(m) == r[m].radio \in {RADIO_STATE_TX, RADIO_STATE_RX}
               failed == \E m \in Active : \/ waitingFor[m] # None
                                           \/ pktToSend[m] # Nil
               unsupported == \E m \in Active : r[m].radio = "NotImplementedError"
           IN  \* a beacon is drawn only where the handler uses it
               /\ \A m \in Active :
                      beacon[m] # Nil => r[m].pktToSend = beacon[m]
               /\ IF failed
                  THEN /\ tschPc' = "error"
                       /\ tschErr' = "AssertionError"
                       /\ UNCHANGED <<pktToSend, waitingFor,
                                      backoff_remaining_delay, radioState,
                                      radioChannel, onGoingTransmission>>
                  ELSE /\ tschPc' = IF unsupported THEN "error" ELSE "stack"
                       /\ tschErr' = IF unsupported THEN "NotImplementedError"
                                     ELSE tschErr
                       /\ pktToSend' = [m \in Motes |->
                              IF m \in Active THEN r[m].pktToSend
                              ELSE pktToSend[m]]
                       /\ backoff_remaining_delay' = [m \in Motes |->
                              IF m \in Active THEN r[m].backoff_remaining_delay
                              ELSE backoff_remaining_delay[m]]
                       /\ waitingFor' = [m \in Motes |->
                              IF m \in Active /\ r[m].radio = RADIO_STATE_TX
                              THEN WAITING_FOR_TX
                              ELSE IF m \in Active /\ r[m].radio = RADIO_STATE_RX
                              THEN WAITING_FOR_RX
                              ELSE waitingFor[m]]
                       /\ radioState' = [m \in Motes |->
                              IF m \in Active /\ on(m) THEN r[m].radio
                              ELSE radioState[m]]
                       /\ radioChannel' = [m \in Motes |->
                              IF m \in Active /\ on(m)
                              THEN <<schedule[m][slot].channelOffset>>
                              ELSE radioChannel[m]]
                       /\ onGoingTransmission' = [m \in Motes |->
                              IF m \in Active /\ r[m].radio = RADIO_STATE_TX
                              THEN <<[channel |-> schedule[m][slot].channelOffset,
                                      packet |-> r[m].pktToSend[1]]>>
                              ELSE onGoingTransmission[m]]
    /\ lastProp' = NoProp
    /\ lastEnqueue' = NoEnqueue
    /\ UNCHANGED <<schedule, txQueue, backoff_exponent, nEnq, tschOthers>>

\* the motes whose upper layers generate frames in the run
Applications == {1}

\* an upper layer of a mote hands a frame to tsch.enqueue
TschEnqueue ==
    /\ tschPc \in {"stack", "admin"}
    /\ nEnq < MaxEnqueues
    /\ \E m \in Applications, type \in EnqueuedTypes :
           \* the next hop of the frame is the root
           LET r == enqueue(schedule[m], txQueue[m], type, DagRoot)
           IN  /\ txQueue' = [txQueue EXCEPT ![m] = r.queue]
               /\ lastEnqueue' = [mote |-> m, type |-> type, goOn |-> r.goOn,
                                  reason |-> r.reason,
                                  wasFull |-> Len(txQueue[m]) >= TSCH_QUEUE_SIZE,
                                  unchanged |-> r.queue = txQueue[m]]
    /\ nEnq' = nEnq + 1
    /\ UNCHANGED <<schedule, pktToSend, waitingFor, backoff_exponent,
                   backoff_remaining_delay, radioState, radioChannel,
                   onGoingTransmission, tschAsn, tschPc, tschErr, lastProp,
                   tschOthers>>

\* the engine dispatches Connectivity.propagate
TschPropagate ==
    /\ tschPc = "stack"
    /\ LET st0 == [radioState |-> radioState, radioChannel |-> radioChannel,
                   onGoingTransmission |-> onGoingTransmission,
                   waitingFor |-> waitingFor, pktToSend |-> pktToSend,
                   txQueue |-> txQueue, backoff_exponent |-> backoff_exponent,
                   backoff_remaining_delay |-> backoff_remaining_delay,
                   tx |-> NoProp.tx, acks |-> NoProp.acks,
                   done |-> NoProp.done, drops |-> NoProp.drops,
                   err |-> "none"]
           slot == tschAsn % tsch_slotframeLength
           Ls == {m \in Motes : radioState[m] = RADIO_STATE_RX}
           U  == {m \in Motes :
                     /\ onGoingTransmission[m] # Nil
                     /\ onGoingTransmission[m][1].packet.dstMac # BROADCAST_ADDRESS}
           \* the largest delay _decide_backoff_delay can draw for transmitter t
           maxDraw(t, heard) ==
               LET pkt == onGoingTransmission[t][1].packet
                   bo == update_backoff_state(backoff_exponent[t],
                             is_retransmission(pkt),
                             CELLOPTION_SHARED \in schedule[t][slot].cellOptions,
                             \E l \in Ls : /\ heard[l] = <<t>>
                                           /\ rxDone_isACKed(<<pkt>>, l),
                             Len(txQueue[t]))
               IN  IF bo.draws THEN 2^bo.exponent - 1 ELSE 0
       IN  \E heard \in [Ls -> {Nil} \cup {<<t>> : t \in Motes}] :
               /\ \A l \in Ls : heard[l] # Nil =>
                      /\ heard[l][1] \in alltransmissions(st0, radioChannel[l][1])
                      /\ Audible(heard[l][1], l)
               /\ \E draw \in [U -> 0..(2^TSCH_MAX_BACKOFF_EXPONENT - 1)] :
                   /\ \A t \in U : draw[t] <= maxDraw(t, heard)
                   /\ \E st \in {propagate(st0, 0, heard,
                                    [m \in Motes |-> IF m \in U THEN draw[m] ELSE 0],
                                    schedule, slot)} :
                          /\ radioState' = st.radioState
                          /\ radioChannel' = st.radioChannel
                          /\ onGoingTransmission' = st.onGoingTransmission
                          /\ waitingFor' = st.waitingFor
                          /\ pktToSend' = st.pktToSend
                          /\ txQueue' = st.txQueue
                          /\ backoff_exponent' = st.backoff_exponent
                          /\ backoff_remaining_delay' = st.backoff_remaining_delay
                          /\ lastProp' = [tx |-> st.tx, acks |-> st.acks,
                                          done |-> st.done,
                                          drops |-> st.drops]
                          /\ tschErr' = st.err
                          /\ tschPc' = IF st.err = "none" THEN "admin" ELSE "error"
    /\ UNCHANGED <<schedule, tschAsn, nEnq, lastEnqueue, tschOthers>>

TschNext ==
    \/ TschSlotStart
    \/ TschEnqueue
    \/ TschPropagate

\* the motes that are not synchronised: setIsSync(True) comes with the minimal
\* cell and setIsSync(False) deletes it
TschUnsynced == {m \in Motes : DOMAIN schedule[m] = {}}

\* motes 0 and 2 as above; mote 1 has not heard an EB yet
TschListenInit ==
    /\ TschBoot
    /\ \E ch \in 0..(phy_numChans - 1) :
           schedule = [m \in Motes |->
               IF m = 0
               THEN (0 :> Tsch_MINIMAL_SHARED_CELL) @@
                    (1 :> [neighbor |-> <<2>>, channelOffset |-> ch,
                           cellOptions |-> {CELLOPTION_RX}])
               ELSE IF m = 2
               THEN (0 :> Tsch_MINIMAL_SHARED_CELL) @@
                    (1 :> [neighbor |-> <<0>>, channelOffset |-> ch,
                           cellOptions |-> {CELLOPTION_TX}])
               ELSE <<>>]
    /\ txQueue = [m \in Motes |-> <<>>]

\* Tsch._tsch_action_listeningForEB_cell of a mote that is not synchronised,
\* dispatched at the start of every slot: the radio listens on the channel
\* random.randint draws.  The runs are those in which the mote hears nothing:
\* no mote is sending on the channel drawn.
TschListenForEB ==
    /\ tschPc = "stack"
    /\ \E m \in TschUnsynced, channel \in 0..(phy_numChans - 1) :
          /\ radioState[m] # RADIO_STATE_RX
          /\ \A t \in {u \in Motes : onGoingTransmission[u] # Nil} :
                 onGoingTransmission[t][1].channel # channel
          /\ radioState' = [radioState EXCEPT ![m] = RADIO_STATE_RX]
          /\ radioChannel' = [radioChannel EXCEPT ![m] = <<channel>>]
          /\ waitingFor' = [waitingFor EXCEPT ![m] = WAITING_FOR_RX]
    /\ UNCHANGED <<schedule, txQueue, pktToSend, backoff_exponent,
                   backoff_remaining_delay, onGoingTransmission, tschAsn, tschPc,
                   tschErr, nEnq, lastEnqueue, lastProp, tschOthers>>

\* propagate comes after the start of the slot of every mote
TschListening == \A m \in TschUnsynced : radioState[m] = RADIO_STATE_RX

\* the engine dispatches Connectivity.propagate
TschListenPropagate == TschListening /\ TschPropagate

TschListenNext ==
    \/ TschSlotStart
    \/ TschListenForEB
    \/ TschEnqueue
    \/ TschListenPropagate

(***************************************************************************)
(* 6P transactions (sixp.py)                                               *)
(***************************************************************************)

\* the 6P commands of the requests: one that checks SeqNum, one that resets it
SIXP_CMD_ADD   == "ADD"
SIXP_CMD_CLEAR == "CLEAR"
SixpCommands == {SIXP_CMD_ADD, SIXP_CMD_CLEAR}

\* an empty dict
EmptyDict == [k \in {} |-> 0]

\* SixP._create_packet for a request
SixpRequest(srcMac, dstMac, code, seqNum) ==
    [srcMac |-> srcMac, dstMac |-> dstMac, code |-> code, seqNum |-> seqNum]

\* SixPTransaction.get_transaction_key of a request, '{initiator}-{responder}'
get_transaction_key(request) == <<request.srcMac, request.dstMac>>

\* the fields SixPTransaction.__init__ sets on mote
SixPTransaction(mote, request) ==
    [request |-> request, key |-> get_transaction_key(request),
     initiator |-> request.srcMac, responder |-> request.dstMac,
     isInitiator |-> request.srcMac = mote,
     peerMac |-> IF request.srcMac = mote THEN request.dstMac
                 ELSE request.srcMac]

\* the SeqNum of the peers a mote has completed 255 transactions with
WrappingSeqNum == 255

\* mutant: a transaction replaces the one the table holds under its key
add_transaction_overwrite(table, transaction) ==
    [raised |-> FALSE, table |-> (transaction.key :> transaction) @@ table]

\* SixP.add_transaction: whether it raises TransactionAdditionError, and the
\* table it leaves
add_transaction(table, transaction) ==
    IF transaction.key \in DOMAIN table
    THEN [raised |-> TRUE, table |-> table]
    ELSE [raised |-> FALSE, table |-> (transaction.key :> transaction) @@ table]

\* SixP.delete_transaction; the assertion holds of every caller, which passes
\* the transaction it found in the table
delete_transaction(table, transaction) ==
    IF transaction.key \in DOMAIN table
    THEN [k \in DOMAIN table \ {transaction.key} |-> table[k]]
    ELSE table

\* SixP._find_transaction for a packet with this key and SeqNum
find_transaction(table, key, seqNum) ==
    IF key \in DOMAIN table /\ table[key].request.seqNum = seqNum
    THEN <<table[key]>>
    ELSE Nil

\* SixP._get_seqnum: the value it returns and the table it leaves
get_seqnum(seqnums, peerMac) ==
    IF peerMac \notin DOMAIN seqnums
    THEN [value |-> 0, table |-> (peerMac :> 0) @@ seqnums]
    ELSE [value |-> seqnums[peerMac], table |-> seqnums]

\* SixP._reset_seqnum
reset_seqnum(seqnums, peerMac) ==
    [p \in DOMAIN seqnums \cup {peerMac} |->
        IF p = peerMac THEN 0 ELSE seqnums[p]]

\* mutant: SeqNum wraps like an unsigned octet, from 0xFF to 0
increment_seqnum_octet(seqnums, peerMac) ==
    [seqnums EXCEPT ![peerMac] = (@ + 1) % 256]

\* SixP.increment_seqnum, for a peer of the table
increment_seqnum(seqnums, peerMac) ==
    [seqnums EXCEPT ![peerMac] = IF @ + 1 = 256 THEN 1 ELSE @ + 1]

\* history of one SixPTransaction.complete
NoComplete == [mote |-> 0, peerMac |-> Nil, before |-> 0, after |-> 0]

\* the arguments send_request passes to the callback on
\* TransactionAdditionError: "callback(packet, d.SIXP_CALLBACK_EVENT_FAILURE)"
send_request_failure_args == <<"packet", "SIXP_CALLBACK_EVENT_FAILURE">>

\* history of one send_request: whether the creation of the transaction
\* failed, the arguments the callback was called with (Nil: not called),
\* whether the request went to tsch.enqueue
NoCallback == [mote |-> 0, called |-> FALSE, failed |-> FALSE, args |-> Nil,
               enqueued |-> FALSE]

NoAdd == [mote |-> 0, key |-> Nil, existed |-> FALSE, raised |-> FALSE,
          unchanged |-> FALSE]

\* the history of one SixPTransaction(...) on mote m
AddHistory(m, transaction, r) ==
    [mote |-> m, key |-> <<transaction.key>>,
     existed |-> transaction.key \in DOMAIN transaction_table[m],
     raised |-> r.raised,
     unchanged |-> r.table = transaction_table[m]]

SixpIdle ==
    /\ transaction_table = [m \in Motes |-> EmptyDict]
    /\ seqnum_table = [m \in Motes |-> EmptyDict]
    /\ sixpErr = "none"
    /\ nSixpOps = 0
    /\ lastAdd = NoAdd
    /\ lastComplete = NoComplete
    /\ lastCallback = NoCallback

\* the 6P layers at the start of a run that follows earlier transactions: the
\* root and mote 1 either never completed one or completed 255 with each other
SixpInit ==
    /\ transaction_table = [m \in Motes |-> EmptyDict]
    /\ \E earlier \in BOOLEAN :
           seqnum_table = [m \in Motes |->
               IF earlier /\ m \in {0, 1} THEN ((1 - m) :> WrappingSeqNum)
               ELSE EmptyDict]
    /\ sixpErr = "none"
    /\ nSixpOps = 0
    /\ lastAdd = NoAdd
    /\ lastComplete = NoComplete
    /\ lastCallback = NoCallback

SixpBudgetLeft == sixpErr = "none" /\ nSixpOps < MaxSixpOps

\* SixP.send_request of mote m: the scheduling function starts a transaction
\* with a neighbor; on TransactionAdditionError its callback gets the failure
SixpSendRequest ==
    /\ SixpBudgetLeft
    /\ \E m \in Motes, code \in SixpCommands :
       \E dstMac \in Motes \ {m} :
           LET sn == get_seqnum(seqnum_table[m], dstMac)
               transaction == SixPTransaction(m,
                                  SixpRequest(m, dstMac, code, sn.value))
               r == add_transaction(transaction_table[m], transaction)
           IN  /\ seqnum_table' = [seqnum_table EXCEPT ![m] = sn.table]
               /\ transaction_table' = [transaction_table EXCEPT ![m] = r.table]
               /\ lastAdd' = AddHistory(m, transaction, r)
               /\ lastCallback' =
                      [mote |-> m, called |-> TRUE, failed |-> r.raised,
                       args |-> IF r.raised THEN send_request_failure_args
                                ELSE Nil,
                       enqueued |-> ~r.raised]
    /\ nSixpOps' = nSixpOps + 1
    /\ UNCHANGED <<sixpErr, lastComplete, sixpOthers>>

\* SixP._recv_request of mote m for a request a neighbor sent
SixpRecvRequest ==
    /\ SixpBudgetLeft
    /\ \E m \in Motes, code \in SixpCommands, seqNum \in 0..MaxSeqNum :
       \E srcMac \in Motes \ {m} :
           LET request == SixpRequest(srcMac, m, code, seqNum)
               found == find_transaction(transaction_table[m],
                            get_transaction_key(request), seqNum)
               transaction == SixPTransaction(m, request)
               r == add_transaction(transaction_table[m], transaction)
               sn == get_seqnum(seqnum_table[m], srcMac)
           IN  IF found # Nil
               THEN \* a duplicate is ignored, another request gets RC_ERR_BUSY
                    UNCHANGED <<transaction_table, seqnum_table, lastAdd>>
               ELSE /\ transaction_table' =
                           [transaction_table EXCEPT ![m] = r.table]
                    /\ lastAdd' = AddHistory(m, transaction, r)
                    /\ seqnum_table' =
                           IF r.raised THEN seqnum_table
                           ELSE IF code = SIXP_CMD_CLEAR
                           THEN [seqnum_table EXCEPT
                                    ![m] = reset_seqnum(@, srcMac)]
                           ELSE [seqnum_table EXCEPT ![m] = sn.table]
    /\ nSixpOps' = nSixpOps + 1
    /\ UNCHANGED <<sixpErr, lastComplete, lastCallback, sixpOthers>>

\* SixPTransaction.complete on mote m, after the last message of the
\* transaction or its MAC ACK arrived
SixpComplete ==
    /\ SixpBudgetLeft
    /\ \E m \in Motes :
       \E key \in DOMAIN transaction_table[m] :
           LET transaction == transaction_table[m][key]
               peerMac == transaction.peerMac
           IN  IF peerMac \notin DOMAIN seqnum_table[m]
               THEN /\ sixpErr' = "AssertionError"
                    /\ UNCHANGED <<transaction_table, seqnum_table,
                                   lastComplete>>
               ELSE /\ seqnum_table' = [seqnum_table EXCEPT
                           ![m] = increment_seqnum(@, peerMac)]
                    /\ transaction_table' = [transaction_table EXCEPT
                           ![m] = delete_transaction(@, transaction)]
                    /\ lastComplete' =
                           [mote |-> m, peerMac |-> <<peerMac>>,
                            before |-> seqnum_table[m][peerMac],
                            after |-> increment_seqnum(seqnum_table[m],
                                                       peerMac)[peerMac]]
                    /\ UNCHANGED sixpErr
    /\ nSixpOps' = nSixpOps + 1
    /\ UNCHANGED <<lastAdd, lastCallback, sixpOthers>>

\* SixPTransaction._timeout_handler on mote m
SixpTimeout ==
    /\ SixpBudgetLeft
    /\ \E m \in Motes :
       \E key \in DOMAIN transaction_table[m] :
           transaction_table' = [transaction_table EXCEPT
               ![m] = delete_transaction(@, transaction_table[m][key])]
    /\ nSixpOps' = nSixpOps + 1
    /\ UNCHANGED <<seqnum_table, sixpErr, lastAdd, lastComplete, lastCallback,
                   sixpOthers>>

SixpNext ==
    \/ SixpSendRequest
    \/ SixpRecvRequest
    \/ SixpComplete
    \/ SixpTimeout

(***************************************************************************)
(* 6LoWPAN: forwarding, fragmentation and reassembly (sixlowpan.py)        *)
(*                                                                         *)
(* The motes form a line: the preferred parent of mote m is mote m - 1,    *)
(* mote 0 is the DAG root.  The applications of the two motes farthest     *)
(* from the root send datagrams to the root, so every frame travels upward *)
(* and comes from a child of its receiver (the Rank-Error branch of        *)
(* recvPacket, which needs a frame from the receiver's own parent, and the *)
(* source routing header of downward packets stay out of these runs).      *)
(* A key that a Python dict does not have is Nil here, a key that it has   *)
(* holds <<value>>.                                                        *)
(***************************************************************************)
LowpanMotes == 0..(LowpanNumMotes - 1)

LowpanSources == {LowpanNumMotes - 2, LowpanNumMotes - 1}

\* datagrams of one, two and three frames
PacketLengths ==
    {tsch_max_payload_len, tsch_max_payload_len + 1, 2 * tsch_max_payload_len + 1}

\* the values of settings.fragmentation_ff_discard_vrb_entry_policy
DiscardPolicies == {{}, {"last_fragment"}, {"missing_fragment"}}

getPreferredParent(m) == m - 1

\* Mote.is_my_ipv6_addr: the IPv6 address of mote m is written m
is_my_ipv6_addr(m, dstIp) == dstIp = m

\* Sixlowpan._find_nexthop_mac_addr for the unicast, global-address, upward
\* packets of these runs: the root knows mote 1 as its on-link neighbour, the
\* other motes use their default router
find_nexthop_mac_addr(m, packet) ==
    IF m = DagRoot
    THEN IF packet.net.dstIp = <<1>> THEN <<1>> ELSE Nil
    ELSE <<getPreferredParent(m)>>

\* Fragmentation._get_next_datagram_tag: the value the counter takes
next_tag_after(tag) == (tag + 1) % 65536

\* the dict without some of its keys
DropKeys(dict, keys) == [k \in DOMAIN dict \ keys |-> dict[k]]

\* Radio.drop_packet deletes every key of the packet
drop_packet(pkt) == EmptyDict

(* ---- Fragmentation.fragmentPacket ---- *)
number_of_fragments(packet_length) ==
    (packet_length + tsch_max_payload_len - 1) \div tsch_max_payload_len

\* the slop is in the first fragment
fragment_length(packet_length, i) ==
    IF i = 0 /\ (packet_length % tsch_max_payload_len) > 0
    THEN packet_length % tsch_max_payload_len
    ELSE tsch_max_payload_len

fragment_offset(packet_length, i) ==
    IF i = 0 THEN 0
    ELSE fragment_length(packet_length, 0) + (i - 1) * tsch_max_payload_len

needs_fragmentation(packet) == tsch_max_payload_len < packet.net.packet_length

fragmentPacket(packet, outgoing_datagram_tag) ==
    IF needs_fragmentation(packet)
    THEN LET len == packet.net.packet_length
             n == number_of_fragments(len)
         IN [k \in 1..n |->
               LET i == k - 1
                   common == [srcIp |-> Nil, dstIp |-> Nil, hop_limit |-> Nil,
                              packet_length |-> fragment_length(len, i),
                              datagram_size |-> <<len>>,
                              datagram_tag |-> <<outgoing_datagram_tag>>,
                              datagram_offset |-> <<fragment_offset(len, i)>>,
                              original_packet_type |-> Nil]
               IN [type |-> "FRAG",
                   app |-> IF i # 0 /\ i = n - 1 THEN packet.app ELSE Nil,
                   net |-> IF i = 0
                           THEN [common EXCEPT !.srcIp = packet.net.srcIp,
                                               !.dstIp = packet.net.dstIp,
                                               !.hop_limit = packet.net.hop_limit]
                           ELSE IF i = n - 1
                           THEN [common EXCEPT
                                    !.original_packet_type = <<packet.type>>]
                           ELSE common,
                   mac |-> packet.mac]]
    ELSE <<packet>>

(* ---- Fragmentation.reassemblePacket ---- *)
RECURSIVE total_fragment_length(_)
total_fragment_length(fragments) ==
    IF fragments = {} THEN 0
    ELSE LET f == CHOOSE g \in fragments : TRUE
         IN f.fragment_length + total_fragment_length(fragments \ {f})

\* no room for a new buffer: the test of a non-root mote
reassembly_buffer_full_gt(dagRoot, total) ==
    ~dagRoot /\ total > sixlowpan_reassembly_buffers_num

reassembly_buffer_full(dagRoot, total) ==
    ~dagRoot /\ total = sixlowpan_reassembly_buffers_num

\* the net header of the reassembled packet
reassembled_net_first(net, datagram_size) == net

reassembled_net(net, datagram_size) == [net EXCEPT !.packet_length = datagram_size]

\* expired: the buffers whose expiration has passed at the call
reassemblePacket(buffers0, dagRoot, fragment, expired) ==
    LET buffers == DropKeys(buffers0, expired)
        key == <<fragment.mac.srcMac, fragment.net.datagram_tag[1]>>
        datagram_size == fragment.net.datagram_size[1]
        datagram_offset == fragment.net.datagram_offset[1]
        isNew == key \notin DOMAIN buffers
        total == Cardinality(DOMAIN buffers)
        ret(b, p, d, f, e) ==
            [buffers |-> b, packet |-> p, drop |-> d, full |-> f, err |-> e]
    IN IF isNew /\ reassembly_buffer_full(dagRoot, total)
       THEN ret(buffers, Nil, <<"REASSEMBLY_BUFFER_FULL">>, TRUE, "none")
       ELSE LET full == isNew /\ ~dagRoot /\ total >= sixlowpan_reassembly_buffers_num
                entry == IF isNew THEN [net |-> Nil, fragments |-> {}]
                         ELSE buffers[key]
                stored == [net |-> IF datagram_offset = 0
                                   THEN <<[fragment.net EXCEPT
                                             !.datagram_size = Nil,
                                             !.datagram_offset = Nil,
                                             !.datagram_tag = Nil]>>
                                   ELSE entry.net,
                           fragments |-> entry.fragments \cup
                               {[datagram_offset |-> datagram_offset,
                                 fragment_length |-> fragment.net.packet_length]}]
                length == total_fragment_length(stored.fragments)
            IN IF \E f \in entry.fragments : f.datagram_offset = datagram_offset
               THEN \* a duplicate fragment
                    ret(buffers, Nil, Nil, full, "none")
               ELSE IF length > datagram_size
               THEN ret((key :> stored) @@ buffers, Nil, Nil, full, "AssertionError")
               ELSE IF length < datagram_size
               THEN ret((key :> stored) @@ buffers, Nil, Nil, full, "none")
               ELSE IF fragment.net.original_packet_type = Nil \/ stored.net = Nil
               THEN ret((key :> stored) @@ buffers, Nil, Nil, full, "KeyError")
               ELSE ret(DropKeys(buffers, {key}),
                        <<[type |-> fragment.net.original_packet_type[1],
                           app |-> fragment.app,
                           net |-> reassembled_net(stored.net[1], datagram_size),
                           mac |-> fragment.mac]>>,
                        Nil, full, "none")

(* ---- FragmentForwarding.fragRecv ---- *)
\* no room for a new VRB table entry: the test of a non-root mote
vrb_table_full_gt(dagRoot, total) ==
    ~dagRoot /\ total > fragmentation_ff_vrb_table_size

vrb_table_full(dagRoot, total) ==
    ~dagRoot /\ total = fragmentation_ff_vrb_table_size

\* expiredVrb, expired: the entries whose expiration has passed at the call;
\* tag: next_datagram_tag of the mote
fragRecv(vrb0, buffers0, m, fragment, expiredVrb, expired, tag, policy) ==
    LET vrb1 == DropKeys(vrb0, expiredVrb)
        dagRoot == m = DagRoot
        key == <<fragment.mac.srcMac, fragment.net.datagram_tag[1]>>
        datagram_size == fragment.net.datagram_size[1]
        datagram_offset == fragment.net.datagram_offset[1]
        packet_length == fragment.net.packet_length
        first == datagram_offset = 0
        forMe == first /\ is_my_ipv6_addr(m, fragment.net.dstIp[1])
        dstMac == IF first /\ ~forMe THEN find_nexthop_mac_addr(m, fragment) ELSE Nil
        total == Cardinality(DOMAIN vrb1)
        ret(v, b, p, d, f, u, e) ==
            [vrb |-> v, buffers |-> b, packet |-> p, drop |-> d, vrbFull |-> f,
             bufFull |-> FALSE, tagUsed |-> u, err |-> e]
    IN IF first /\ ~forMe /\ dstMac = Nil
       THEN \* no route to the destination
            ret(vrb1, buffers0, Nil, Nil, FALSE, FALSE, "none")
       ELSE IF first /\ ~dagRoot /\ total > fragmentation_ff_vrb_table_size
       THEN ret(vrb1, buffers0, Nil, Nil, TRUE, FALSE, "AssertionError")
       ELSE IF first /\ vrb_table_full(dagRoot, total)
       THEN ret(vrb1, buffers0, Nil, <<"VRB_TABLE_FULL">>, TRUE, FALSE, "none")
       ELSE IF first /\ key \in DOMAIN vrb1
       THEN \* a duplicate first fragment is silently discarded
            ret(vrb1, buffers0, Nil, Nil, FALSE, FALSE, "none")
       ELSE
       LET full == first /\ ~dagRoot /\ total >= fragmentation_ff_vrb_table_size
           created == [dstMac |-> dstMac,
                       outgoing_datagram_tag |-> IF forMe THEN Nil ELSE <<tag>>,
                       next_offset |-> IF "missing_fragment" \in policy
                                       THEN <<0>> ELSE Nil]
           vrb2 == IF first THEN (key :> created) @@ vrb1 ELSE vrb1
           tagUsed == first /\ ~forMe
           vrb3 == IF "missing_fragment" \in policy /\ key \in DOMAIN vrb2
                   THEN IF <<datagram_offset>> = vrb2[key].next_offset
                        THEN [vrb2 EXCEPT ![key].next_offset = <<@[1] + packet_length>>]
                        ELSE DropKeys(vrb2, {key})
                   ELSE vrb2
           found == key \in DOMAIN vrb3
           mine == found /\ vrb3[key].outgoing_datagram_tag = Nil
           r == IF mine THEN reassemblePacket(buffers0, dagRoot, fragment, expired)
                ELSE [buffers |-> buffers0, packet |-> Nil, drop |-> Nil,
                      full |-> FALSE, err |-> "none"]
           fwdFragment ==
               [type |-> fragment.type,
                app |-> fragment.app,
                net |-> [fragment.net EXCEPT
                            !.datagram_tag = vrb3[key].outgoing_datagram_tag],
                mac |-> [srcMac |-> m, dstMac |-> vrb3[key].dstMac[1]]]
           vrb4 == IF /\ "last_fragment" \in policy
                      /\ found
                      /\ datagram_offset + packet_length = datagram_size
                   THEN DropKeys(vrb3, {key})
                   ELSE vrb3
       IN IF ~found THEN ret(vrb4, buffers0, Nil, Nil, full, tagUsed, "none")
          ELSE IF mine
          THEN [ret(vrb4, r.buffers, r.packet, r.drop, full, tagUsed, r.err)
                    EXCEPT !.bufFull = r.full]
          ELSE ret(vrb4, buffers0, <<fwdFragment>>, Nil, full, tagUsed, "none")

(* ---- Sixlowpan.forward ---- *)
\* the hop limit that lets the packet go no further
hop_limit_exceeded_zero(hop_limit) == hop_limit < 1

hop_limit_exceeded(hop_limit) == hop_limit < 2

\* tag: next_datagram_tag of the mote
forward(m, rxPacket, tag) ==
    LET ret(o, d, dp, u, e) ==
            [out |-> o, drop |-> d, dropped |-> dp, fragmented |-> u, err |-> e]
    IN IF rxPacket.net.hop_limit # Nil /\ hop_limit_exceeded(rxPacket.net.hop_limit[1])
       THEN IF rxPacket.net.hop_limit[1] # 1
            THEN ret(<<>>, Nil, Nil, Nil, "AssertionError")
            ELSE ret(<<>>, <<"TIME_EXCEEDED">>, <<drop_packet(rxPacket)>>, Nil, "none")
       ELSE IF rxPacket.net.hop_limit # Nil /\ ~(rxPacket.net.hop_limit[1] > 1)
       THEN ret(<<>>, Nil, Nil, Nil, "AssertionError")
       ELSE
       LET net == IF rxPacket.net.hop_limit # Nil
                  THEN [rxPacket.net EXCEPT !.hop_limit = <<@[1] - 1>>]
                  ELSE rxPacket.net
           fwd == [type |-> rxPacket.type, app |-> rxPacket.app, net |-> net,
                   mac |-> rxPacket.mac]
           dstMac == find_nexthop_mac_addr(m, fwd)
       IN IF fwd.type = "FRAG"
          THEN \* a fragment keeps its MAC header and is not fragmented again
               ret(<<fwd>>, Nil, Nil, Nil, "none")
          ELSE IF dstMac = Nil
          THEN ret(<<>>, <<"NO_ROUTE">>, <<drop_packet(rxPacket)>>, Nil, "none")
          ELSE LET fwdPacket == [fwd EXCEPT
                                    !.mac = [srcMac |-> m, dstMac |-> dstMac[1]]]
               IN ret(fragmentPacket(fwdPacket, tag), Nil, Nil,
                      IF needs_fragmentation(fwdPacket) THEN <<fwdPacket>> ELSE Nil,
                      "none")

(* ---- the runs ---- *)
NoLowpan ==
    [mote |-> 0, rx |-> Nil, fwdIn |-> Nil, out |-> <<>>, drop |-> Nil,
     dropped |-> Nil, reassembled |-> Nil, delivered |-> FALSE,
     bufFull |-> FALSE, vrbFull |-> FALSE, err |-> "none"]

\* no datagram has been sent
LowpanIdle ==
    /\ fragmentation = "PerHopReassembly"
    /\ discard_vrb_entry_policy = {}
    /\ next_datagram_tag = [m \in LowpanMotes |-> 0]
    /\ reassembly_buffers = [m \in LowpanMotes |-> EmptyDict]
    /\ vrb_table = [m \in LowpanMotes |-> EmptyDict]
    /\ lowpanQueue = [m \in LowpanMotes |-> <<>>]
    /\ nDatagrams = 0
    /\ sentDatagrams = EmptyDict
    /\ timeExceeded = {}
    /\ lastLowpan = NoLowpan

\* Fragmentation.__init__ draws next_datagram_tag at random: the runs start
\* at the lowest and at the highest tag
LowpanInit ==
    /\ fragmentation \in {"PerHopReassembly", "FragmentForwarding"}
    /\ discard_vrb_entry_policy \in
           IF fragmentation = "FragmentForwarding" THEN DiscardPolicies ELSE {{}}
    /\ \E tag \in {0, 65535} : next_datagram_tag = [m \in LowpanMotes |-> tag]
    /\ reassembly_buffers = [m \in LowpanMotes |-> EmptyDict]
    /\ vrb_table = [m \in LowpanMotes |-> EmptyDict]
    /\ lowpanQueue = [m \in LowpanMotes |-> <<>>]
    /\ nDatagrams = 0
    /\ sentDatagrams = EmptyDict
    /\ timeExceeded = {}
    /\ lastLowpan = NoLowpan

\* Sixlowpan.sendPacket of a source: hop limit, MAC header, fragmentation,
\* tsch.enqueue of every frame
LowpanSendPacket ==
    /\ lastLowpan.err = "none"
    /\ nDatagrams < MaxDatagrams
    /\ \E src \in LowpanSources, len \in PacketLengths :
         LET net == [srcIp |-> <<src>>, dstIp |-> <<DagRoot>>,
                     hop_limit |-> <<IPV6_DEFAULT_HOP_LIMIT>>,
                     packet_length |-> len,
                     datagram_size |-> Nil, datagram_tag |-> Nil,
                     datagram_offset |-> Nil, original_packet_type |-> Nil]
             payload == [type |-> "DATA", app |-> <<nDatagrams + 1>>, net |-> net]
             dstMac == find_nexthop_mac_addr(src, payload)
             packet == [type |-> payload.type, app |-> payload.app, net |-> net,
                        mac |-> [srcMac |-> src, dstMac |-> dstMac[1]]]
             tag == next_datagram_tag[src]
         IN /\ lowpanQueue' =
                   [lowpanQueue EXCEPT ![src] = @ \o fragmentPacket(packet, tag)]
            /\ next_datagram_tag' =
                   IF needs_fragmentation(packet)
                   THEN [next_datagram_tag EXCEPT ![src] = next_tag_after(tag)]
                   ELSE next_datagram_tag
            /\ sentDatagrams' =
                   IF needs_fragmentation(packet)
                   THEN (<<src, tag>> :> packet) @@ sentDatagrams
                   ELSE sentDatagrams
    /\ nDatagrams' = nDatagrams + 1
    /\ lastLowpan' = NoLowpan
    /\ UNCHANGED <<fragmentation, discard_vrb_entry_policy, reassembly_buffers,
                   vrb_table, timeExceeded, lowpanOthers>>

\* the link layer gives up the frame at the head of a queue: it reaches nobody
LowpanLoseFrame ==
    /\ lastLowpan.err = "none"
    /\ \E s \in LowpanMotes :
         /\ lowpanQueue[s] # <<>>
         /\ lowpanQueue' = [lowpanQueue EXCEPT ![s] = Tail(@)]
    /\ lastLowpan' = NoLowpan
    /\ UNCHANGED <<fragmentation, discard_vrb_entry_policy, next_datagram_tag,
                   reassembly_buffers, vrb_table, nDatagrams, sentDatagrams,
                   timeExceeded, lowpanOthers>>

\* what the fragmentation sublayer of mote m makes of a received frame
lowpan_fragRecv(m, frame, expiredVrb, expired) ==
    IF frame.type # "FRAG"
    THEN [vrb |-> vrb_table[m], buffers |-> reassembly_buffers[m],
          packet |-> <<frame>>, drop |-> Nil, vrbFull |-> FALSE,
          bufFull |-> FALSE, tagUsed |-> FALSE, err |-> "none"]
    ELSE IF fragmentation = "PerHopReassembly"
    THEN LET r == reassemblePacket(reassembly_buffers[m], m = DagRoot, frame, expired)
         IN [vrb |-> vrb_table[m], buffers |-> r.buffers, packet |-> r.packet,
             drop |-> r.drop, vrbFull |-> FALSE, bufFull |-> r.full,
             tagUsed |-> FALSE, err |-> r.err]
    ELSE fragRecv(vrb_table[m], reassembly_buffers[m], m, frame, expiredVrb,
                  expired, next_datagram_tag[m], discard_vrb_entry_policy)

\* Sixlowpan.recvPacket of the mote the frame at the head of a queue is for
LowpanRecvPacket ==
    /\ lastLowpan.err = "none"
    /\ \E s \in LowpanMotes :
         /\ lowpanQueue[s] # <<>>
         /\ LET frame == Head(lowpanQueue[s])
                m == frame.mac.dstMac
                isFrag == frame.type = "FRAG"
            IN \E expired \in (IF isFrag THEN SUBSET DOMAIN reassembly_buffers[m]
                                ELSE {{}}) :
               \E expiredVrb \in (IF isFrag THEN SUBSET DOMAIN vrb_table[m]
                                   ELSE {{}}) :
               \E fr \in {lowpan_fragRecv(m, frame, expiredVrb, expired)} :
                 LET proceed == fr.packet # Nil /\ fr.err = "none"
                     forMe == /\ proceed
                              /\ fr.packet[1].type # "FRAG"
                              /\ is_my_ipv6_addr(m, fr.packet[1].net.dstIp[1])
                     tag == IF fr.tagUsed THEN next_tag_after(next_datagram_tag[m])
                            ELSE next_datagram_tag[m]
                 IN \E fw \in {IF proceed /\ ~forMe
                                THEN forward(m, fr.packet[1], tag)
                                ELSE [out |-> <<>>, drop |-> Nil, dropped |-> Nil,
                                      fragmented |-> Nil, err |-> "none"]} :
                      /\ reassembly_buffers' = [reassembly_buffers EXCEPT ![m] = fr.buffers]
                      /\ vrb_table' = [vrb_table EXCEPT ![m] = fr.vrb]
                      /\ next_datagram_tag' =
                             [next_datagram_tag EXCEPT ![m] =
                                 IF fw.fragmented # Nil THEN next_tag_after(tag) ELSE tag]
                      /\ sentDatagrams' =
                             IF fw.fragmented # Nil
                             THEN (<<m, tag>> :> fw.fragmented[1]) @@ sentDatagrams
                             ELSE sentDatagrams
                      /\ timeExceeded' =
                             IF /\ isFrag
                                /\ frame.net.datagram_offset = <<0>>
                                /\ fw.drop = <<"TIME_EXCEEDED">>
                             THEN timeExceeded \cup
                                      {<<m, s, frame.net.datagram_tag[1]>>}
                             ELSE timeExceeded
                      /\ lowpanQueue' = [lowpanQueue EXCEPT ![s] = Tail(@),
                                                            ![m] = @ \o fw.out]
                      /\ lastLowpan' =
                             [mote |-> m, rx |-> <<frame>>,
                              fwdIn |-> IF proceed /\ ~forMe THEN fr.packet ELSE Nil,
                              out |-> fw.out,
                              drop |-> IF fr.drop # Nil THEN fr.drop ELSE fw.drop,
                              dropped |-> IF fr.drop # Nil THEN <<drop_packet(frame)>>
                                          ELSE fw.dropped,
                              reassembled |-> IF isFrag /\ proceed /\ fr.packet[1].type # "FRAG"
                                              THEN fr.packet ELSE Nil,
                              delivered |-> forMe,
                              bufFull |-> fr.bufFull, vrbFull |-> fr.vrbFull,
                              err |-> IF fr.err # "none" THEN fr.err ELSE fw.err]
    /\ UNCHANGED <<fragmentation, discard_vrb_entry_policy, nDatagrams, lowpanOthers>>

LowpanNext ==
    \/ LowpanSendPacket
    \/ LowpanLoseFrame
    \/ LowpanRecvPacket

(***************************************************************************)
(* TSCH: the schedule of one mote and the statistics of its cells          *)
(* (tsch.py: addCell, deleteCell, _tsch_action_active_cell,                *)
(* _tsch_action_TX, txDone, rxDone)                                        *)
(*                                                                         *)
(* The mote is mote 1 of a line 0 - 1 - 2.  Its scheduling function and    *)
(* its upper layers add and delete cells and enqueue frames between the    *)
(* radio activities of the mote; the cell of a slot is the same from the   *)
(* start of a transmission to its txDone.                                  *)
(***************************************************************************)
CellMote == 1

CellNeighbors == {0, 2}

\* when numTx reaches this value numTx and numTxAck are divided by 2
NUMTX_HALVING == 256

\* a cell as addCell stores it
NewCell(channelOffset, neighbor, cellOptions) ==
    [neighbor |-> neighbor, channelOffset |-> channelOffset,
     cellOptions |-> cellOptions, numTx |-> 0, numTxAck |-> 0, numRx |-> 0]

\* mutant: addCell takes any slot offset
addCell_slot_any(sched, slotOffset) == TRUE

\* addCell's "assert slotOffset not in self.schedule.keys()"
addCell_slot_free(sched, slotOffset) == slotOffset \notin DOMAIN sched

\* Tsch.addCell: the schedule it leaves and the exception it raises
addCell(sched, slotOffset, channelOffset, neighbor, cellOptions) ==
    IF ~addCell_slot_free(sched, slotOffset)
    THEN [schedule |-> sched, err |-> "AssertionError"]
    ELSE [schedule |-> (slotOffset :> NewCell(channelOffset, neighbor, cellOptions))
                        @@ sched,
          err |-> "none"]

\* Tsch.deleteCell
deleteCell(sched, slotOffset, channelOffset, neighbor, cellOptions) ==
    IF \/ slotOffset \notin DOMAIN sched
       \/ sched[slotOffset].channelOffset # channelOffset
       \/ sched[slotOffset].neighbor # neighbor
       \/ sched[slotOffset].cellOptions # cellOptions
    THEN [schedule |-> sched, err |-> "AssertionError"]
    ELSE [schedule |-> [so \in DOMAIN sched \ {slotOffset} |-> sched[so]],
          err |-> "none"]

\* mutant: only numTx is divided
tsch_action_TX_stats_numTx(cell) ==
    IF cell.numTx + 1 = NUMTX_HALVING
    THEN [cell EXCEPT !.numTx = (cell.numTx + 1) \div 2]
    ELSE [cell EXCEPT !.numTx = cell.numTx + 1]

\* Tsch._tsch_action_TX: the statistics of the cell the frame is sent in
tsch_action_TX_stats(cell) ==
    IF cell.numTx + 1 = NUMTX_HALVING
    THEN [cell EXCEPT !.numTx = (cell.numTx + 1) \div 2,
                      !.numTxAck = cell.numTxAck \div 2]
    ELSE [cell EXCEPT !.numTx = cell.numTx + 1]

\* Tsch.txDone: the statistics of the cell of the slot
txDone_stats(cell, pkt, isACKed) ==
    IF pkt.dstMac # BROADCAST_ADDRESS /\ isACKed
    THEN [cell EXCEPT !.numTxAck = @ + 1]
    ELSE cell

\* the statistics a cell can have after numTx transmissions of which numTxAck
\* were acknowledged, none of them pending
CellStats == {<<0, 0>>} \cup {<<NearHalving, a>> : a \in {0, NearHalving \div 2, NearHalving}}

NoCell == [op |-> None, slot |-> 0, occupied |-> FALSE, before |-> Nil,
           pkt |-> Nil]

\* the mote has not joined: no cell, no frame
CellIdle ==
    /\ cellSchedule = <<>>
    /\ cellTxQueue = <<>>
    /\ cellPktToSend = Nil
    /\ cellWaitingFor = None
    /\ cellBackoff = [exponent |-> TSCH_MIN_BACKOFF_EXPONENT, remaining |-> 0]
    /\ cellSlot = 0
    /\ cellErr = "none"
    /\ nCellOps = 0
    /\ lastCell = NoCell

\* the mote has joined: it has the minimal cell and a dedicated TX cell to
\* its parent, and it has used one of them any number of times
CellInit ==
    /\ \E stats \in CellStats, used \in {0, 1} :
          LET cells == (0 :> NewCell(0, Nil, Tsch_MINIMAL_SHARED_CELL.cellOptions)) @@
                       (1 :> NewCell(1, <<0>>, {CELLOPTION_TX}))
          IN cellSchedule = [cells EXCEPT ![used].numTx = stats[1],
                                          ![used].numTxAck = stats[2]]
    /\ cellTxQueue = <<>>
    /\ cellPktToSend = Nil
    /\ cellWaitingFor = None
    /\ cellBackoff = [exponent |-> TSCH_MIN_BACKOFF_EXPONENT, remaining |-> 0]
    /\ cellSlot = 0
    /\ cellErr = "none"
    /\ nCellOps = 0
    /\ lastCell = NoCell

CellRunning == cellErr = "none" /\ nCellOps < MaxCellOps

\* the options of the cells the scheduling function asks for
CellOptionChoices ==
    {{CELLOPTION_TX}, {CELLOPTION_RX},
     {CELLOPTION_TX, CELLOPTION_RX, CELLOPTION_SHARED}}

\* the scheduling function calls addCell
CellAddCell ==
    /\ CellRunning
    /\ cellWaitingFor = None
    /\ \E slotOffset \in 0..(tsch_slotframeLength - 1),
          neighbor \in {Nil} \cup {<<n>> : n \in CellNeighbors},
          cellOptions \in CellOptionChoices :
         /\ neighbor = Nil => cellOptions = Tsch_MINIMAL_SHARED_CELL.cellOptions
         /\ LET r == addCell(cellSchedule, slotOffset, 0, neighbor, cellOptions)
            IN /\ cellSchedule' = r.schedule
               /\ cellErr' = r.err
               /\ lastCell' = [op |-> "addCell", slot |-> slotOffset,
                               occupied |-> slotOffset \in DOMAIN cellSchedule,
                               before |-> IF slotOffset \in DOMAIN cellSchedule
                                          THEN <<cellSchedule[slotOffset]>> ELSE Nil,
                               pkt |-> Nil]
    /\ nCellOps' = nCellOps + 1
    /\ UNCHANGED <<cellTxQueue, cellPktToSend, cellWaitingFor, cellBackoff,
                   cellSlot, cellOthers>>

\* the scheduling function calls deleteCell for a cell of the schedule
CellDeleteCell ==
    /\ CellRunning
    /\ cellWaitingFor = None
    /\ \E slotOffset \in DOMAIN cellSchedule :
         LET cell == cellSchedule[slotOffset]
             r == deleteCell(cellSchedule, slotOffset, cell.channelOffset,
                             cell.neighbor, cell.cellOptions)
         IN /\ cellSchedule' = r.schedule
            /\ cellErr' = r.err
            /\ lastCell' = [op |-> "deleteCell", slot |-> slotOffset,
                            occupied |-> TRUE, before |-> <<cell>>, pkt |-> Nil]
    /\ nCellOps' = nCellOps + 1
    /\ UNCHANGED <<cellTxQueue, cellPktToSend, cellWaitingFor, cellBackoff,
                   cellSlot, cellOthers>>

\* an upper layer hands a frame for a neighbour to tsch.enqueue
CellEnqueue ==
    /\ CellRunning
    /\ cellWaitingFor = None
    /\ \E dstMac \in CellNeighbors :
         cellTxQueue' = enqueue(cellSchedule, cellTxQueue, "DATA", dstMac).queue
    /\ nCellOps' = nCellOps + 1
    /\ lastCell' = [NoCell EXCEPT !.op = "enqueue"]
    /\ UNCHANGED <<cellSchedule, cellPktToSend, cellWaitingFor, cellBackoff,
                   cellSlot, cellErr, cellOthers>>

\* the next slot: Tsch._tsch_action_active_cell when the schedule has a cell
\* at its offset, with _tsch_action_TX or _tsch_action_RX
CellActiveCell ==
    /\ CellRunning
    /\ cellWaitingFor = None
    /\ LET slot == (cellSlot + 1) % tsch_slotframeLength
       IN /\ cellSlot' = slot
          /\ IF slot \notin DOMAIN cellSchedule
             THEN /\ lastCell' = [NoCell EXCEPT !.op = "slot", !.slot = slot]
                  /\ UNCHANGED <<cellSchedule, cellPktToSend, cellWaitingFor,
                                 cellBackoff, cellErr>>
             ELSE \E beacon \in {Nil} \cup
                        {<<[type |-> t, dstMac |-> BROADCAST_ADDRESS]>> : t \in BeaconTypes} :
                  \E r \in {tsch_action_active_cell(cellSchedule, cellSchedule[slot],
                                cellTxQueue, cellBackoff.remaining, beacon)} :
                    /\ beacon # Nil => r.pktToSend = beacon
                    /\ cellBackoff' = [cellBackoff EXCEPT
                                          !.remaining = r.backoff_remaining_delay]
                    /\ cellErr' = IF r.radio = "NotImplementedError"
                                  THEN "NotImplementedError" ELSE cellErr
                    /\ cellPktToSend' = IF r.radio = RADIO_STATE_TX
                                        THEN r.pktToSend ELSE Nil
                    /\ cellWaitingFor' = IF r.radio = RADIO_STATE_TX THEN WAITING_FOR_TX
                                         ELSE IF r.radio = RADIO_STATE_RX
                                         THEN WAITING_FOR_RX
                                         ELSE None
                    /\ cellSchedule' =
                          IF r.radio = RADIO_STATE_TX
                          THEN [cellSchedule EXCEPT
                                   ![slot] = tsch_action_TX_stats(@)]
                          ELSE cellSchedule
                    /\ lastCell' = [op |-> IF r.radio = RADIO_STATE_TX THEN "TX"
                                           ELSE "slot",
                                    slot |-> slot, occupied |-> TRUE,
                                    before |-> <<cellSchedule[slot]>>,
                                    pkt |-> IF r.radio = RADIO_STATE_TX
                                            THEN r.pktToSend ELSE Nil]
    /\ nCellOps' = nCellOps + 1
    /\ UNCHANGED <<cellTxQueue, cellOthers>>

\* Connectivity.propagate calls txDone of the mote
CellTxDone ==
    /\ cellErr = "none"
    /\ cellWaitingFor = WAITING_FOR_TX
    /\ LET pkt == cellPktToSend[1]
           cell == cellSchedule[cellSlot]
           unicast == pkt.dstMac # BROADCAST_ADDRESS
       IN \E isACKed \in (IF unicast THEN BOOLEAN ELSE {FALSE}) :
          \E delay \in 0..(2^TSCH_MAX_BACKOFF_EXPONENT - 1) :
            /\ delay <= (IF unicast
                         THEN LET bo == update_backoff_state(cellBackoff.exponent,
                                           is_retransmission(pkt),
                                           CELLOPTION_SHARED \in cell.cellOptions,
                                           isACKed, Len(cellTxQueue))
                              IN IF bo.draws THEN 2^bo.exponent - 1 ELSE 0
                         ELSE 0)
            /\ \E r \in {txDone(cellTxQueue, pkt, cell, cellBackoff.exponent,
                                cellBackoff.remaining, isACKed, delay)} :
                 /\ cellTxQueue' = r.txQueue
                 /\ cellBackoff' = [exponent |-> r.backoff_exponent,
                                    remaining |-> r.backoff_remaining_delay]
                 /\ cellSchedule' = [cellSchedule EXCEPT
                                        ![cellSlot] = txDone_stats(@, pkt, isACKed)]
                 /\ lastCell' = [op |-> "txDone", slot |-> cellSlot,
                                 occupied |-> TRUE, before |-> <<cell>>,
                                 pkt |-> cellPktToSend]
    /\ cellPktToSend' = Nil
    /\ cellWaitingFor' = None
    /\ UNCHANGED <<cellSlot, cellErr, nCellOps, cellOthers>>

\* Connectivity.propagate calls rxDone of the mote: with no frame, with a
\* frame for another mote, with a frame for the mote or with a broadcast
CellRxDone ==
    /\ cellErr = "none"
    /\ cellWaitingFor = WAITING_FOR_RX
    /\ \E packet \in {Nil} \cup {<<[type |-> "DATA", dstMac |-> d]>> :
                                   d \in {CellMote, 0, BROADCAST_ADDRESS}} :
         /\ cellSchedule' =
               IF packet # Nil /\ packet[1].dstMac \in {BROADCAST_ADDRESS, CellMote}
               THEN [cellSchedule EXCEPT ![cellSlot].numRx = @ + 1]
               ELSE cellSchedule
         /\ lastCell' = [op |-> "rxDone", slot |-> cellSlot, occupied |-> TRUE,
                         before |-> <<cellSchedule[cellSlot]>>, pkt |-> packet]
    /\ cellWaitingFor' = None
    /\ UNCHANGED <<cellTxQueue, cellPktToSend, cellBackoff, cellSlot, cellErr,
                   nCellOps, cellOthers>>

CellNext ==
    \/ CellAddCell
    \/ CellDeleteCell
    \/ CellEnqueue
    \/ CellActiveCell
    \/ CellTxDone
    \/ CellRxDone

\* the backoff state and the TX queue a mote can be in after earlier traffic
\* on the minimal cell: the state after boot and after an acknowledged frame;
\* the state after a frame was dropped for MAX_RETRIES (the exponent went
\* MIN, MIN + 1, ... up to MAX and a delay was drawn); the state after the
\* third unacknowledged transmission of a frame for the child, still queued
BackoffStates ==
    {[exponent |-> TSCH_MIN_BACKOFF_EXPONENT, remaining |-> 0, txQueue |-> <<>>]}
    \cup {[exponent |-> TSCH_MAX_BACKOFF_EXPONENT, remaining |-> r, txQueue |-> q] :
              r \in {0, 1},
              q \in {<<>>, <<[Frame("DATA", 2) EXCEPT
                                 !.retriesLeft = TSCH_MAXTXRETRIES - 3,
                                 !.txdone_noack = 3]>>}}

\* the mote has joined and has sent frames before: it has the minimal cell and
\* a dedicated TX cell to its parent
BackoffInit ==
    /\ cellSchedule = (0 :> NewCell(0, Nil, Tsch_MINIMAL_SHARED_CELL.cellOptions)) @@
                      (1 :> NewCell(1, <<0>>, {CELLOPTION_TX}))
    /\ \E b \in BackoffStates :
          /\ cellTxQueue = b.txQueue
          /\ cellBackoff = [exponent |-> b.exponent, remaining |-> b.remaining]
    /\ cellPktToSend = Nil
    /\ cellWaitingFor = None
    /\ cellSlot = 0
    /\ cellErr = "none"
    /\ nCellOps = 0
    /\ lastCell = NoCell

\* the slots of a mote whose schedule does not change
BackoffNext ==
    \/ CellEnqueue
    \/ CellActiveCell
    \/ CellTxDone
    \/ CellRxDone

(***************************************************************************)
(* Synchronisation and secure join of one mote                             *)
(*                                                                         *)
(* One mote listens for EBs, synchronises on the first one it receives and *)
(* runs the join process of SecJoin with the sender of the EB as its join  *)
(* proxy.  The log lines of the mote are kept with the ASN at which they   *)
(* were written.  A slot has its stack tasks, among them the timer of the  *)
(* join request, before the end of its radio activity (one frame sent or   *)
(* received by the mote).  The request timeout is kept in slots.  Which    *)
(* slot offsets the mote is active in is left open: it may send or receive *)
(* in any slot.                                                            *)
(***************************************************************************)

\* the motes whose EBs the mote can hear
JoinNeighbors == {0, 1}

\* SecJoin.MAX_RETRANSMIT
MAX_RETRANSMIT == 4

RPL_MIN_HOP_RANK_INCREASE == 256

\* the request timeouts SecJoin.startJoinProcess can draw, in slots
TimeoutSlots == {1, 2}

\* one line of the log
JoinLogLine(cx, event, now) ==
    [cx EXCEPT !.log = Append(@, [event |-> event, asn |-> now])]

\* an exception raised in a handler
JoinRaise(cx, exception) == [cx EXCEPT !.mote.err = exception]

\* Tsch.add_minimal_cell: addCell, with its assertion and its log line, of
\* the minimal cell at slot offset 0
add_minimal_cell(cx, now) ==
    IF cx.mote.err # "none" THEN cx
    ELSE LET c == Tsch_MINIMAL_SHARED_CELL
             r == addCell(cx.mote.schedule, 0, c.channelOffset,
                          c.neighbor, c.cellOptions)
         IN IF r.err # "none" THEN JoinRaise(cx, r.err)
            ELSE JoinLogLine([cx EXCEPT !.mote.schedule = r.schedule],
                             "tsch.add_cell", now)

\* Tsch.delete_minimal_cell: deleteCell with its assertions and its log line
delete_minimal_cell(cx, now) ==
    IF cx.mote.err # "none" THEN cx
    ELSE LET c == Tsch_MINIMAL_SHARED_CELL
             r == deleteCell(cx.mote.schedule, 0, c.channelOffset,
                             c.neighbor, c.cellOptions)
         IN IF r.err # "none" THEN JoinRaise(cx, r.err)
            ELSE JoinLogLine([cx EXCEPT !.mote.schedule = r.schedule],
                             "tsch.delete_cell", now)

\* Tsch.setIsSync
setIsSync(cx, val, now) ==
    IF cx.mote.err # "none" THEN cx
    ELSE IF val
    THEN JoinLogLine([cx EXCEPT !.mote.isSync = TRUE], "tsch.synced", now)
    ELSE LET logged == JoinLogLine([cx EXCEPT !.mote.isSync = FALSE],
                                   "tsch.desynced", now)
             deleted == delete_minimal_cell(logged, now)
         IN IF deleted.mote.err # "none" THEN deleted
            ELSE [deleted EXCEPT !.mote.join_proxy = Nil]

\* the assignment self.join_proxy = packet['mac']['srcMac']
set_join_proxy(cx, srcMac) ==
    IF cx.mote.err # "none" THEN cx
    ELSE [cx EXCEPT !.mote.join_proxy = <<srcMac>>]

\* SecJoin.setIsJoined: the log line is written on every call
setIsJoined(cx, newState, now) ==
    IF cx.mote.err # "none" THEN cx
    ELSE JoinLogLine([cx EXCEPT !.mote.isJoined = newState],
                     "secjoin.joined", now)

\* SecJoin._send_join_request: the log line, the request handed to 6LoWPAN
\* (lost when the TX queue is full) and the retransmission event, which
\* replaces an event of the same tag
send_join_request(cx, now) ==
    IF cx.mote.err # "none" THEN cx
    ELSE LET logged == JoinLogLine(cx, "secjoin.tx", now)
         IN [logged EXCEPT
                !.requests = Append(@, [dstMac |-> cx.mote.join_proxy, asn |-> now]),
                !.timer = <<now + cx.mote.request_timeout>>]

\* SecJoin.startJoinProcess
startJoinProcess(cx, now, timeout) ==
    IF cx.mote.err # "none" THEN cx
    ELSE IF \/ cx.mote.dagRoot
            \/ ~cx.mote.isSync
            \/ cx.mote.join_proxy = Nil
            \/ cx.mote.isJoined
    THEN JoinRaise(cx, "AssertionError")
    ELSE IF cx.enabled
    THEN send_join_request(
             [cx EXCEPT !.mote.retransmission_count = <<0>>,
                        !.mote.request_timeout = timeout], now)
    ELSE setIsJoined(cx, TRUE, now)

\* a variant of the branch below that triggers the join process first
receiveEB_join_first(cx, srcMac, now, timeout) ==
    add_minimal_cell(
        set_join_proxy(setIsSync(startJoinProcess(cx, now, timeout), TRUE, now),
                       srcMac),
        now)

\* Tsch._tsch_action_receiveEB, the branch of a mote that is not synced
receiveEB_unsynced(cx, srcMac, now, timeout) ==
    startJoinProcess(
        add_minimal_cell(set_join_proxy(setIsSync(cx, TRUE, now), srcMac), now),
        now, timeout)

\* Tsch._tsch_action_receiveEB
tsch_action_receiveEB(cx, srcMac, now, timeout) ==
    IF cx.mote.dagRoot THEN cx
    ELSE IF ~cx.mote.isSync THEN receiveEB_unsynced(cx, srcMac, now, timeout)
    ELSE cx

\* SecJoin.receive of a JOIN_RESPONSE without a stateless_proxy element
secjoin_receive_response(cx, now) ==
    IF cx.mote.dagRoot THEN JoinRaise(cx, "AssertionError")
    ELSE IF cx.mote.isJoined THEN cx
    ELSE IF cx.mote.retransmission_count = Nil THEN cx
    ELSE setIsJoined([cx EXCEPT !.timer = Nil], TRUE, now)

\* mutant: the timeout stays as it is at a retransmission
retransmit_join_request_same_timeout(cx, now) ==
    IF cx.mote.retransmission_count = <<MAX_RETRANSMIT>>
    THEN setIsSync([cx EXCEPT !.mote.request_timeout = 0,
                              !.mote.retransmission_count = Nil,
                              !.timer = Nil],
                   FALSE, now)
    ELSE IF \/ cx.mote.retransmission_count = Nil
            \/ cx.mote.retransmission_count[1] > MAX_RETRANSMIT
    THEN JoinRaise(cx, "AssertionError")
    ELSE [send_join_request([cx EXCEPT !.timer = Nil], now) EXCEPT
             !.mote.retransmission_count = <<cx.mote.retransmission_count[1] + 1>>]

\* SecJoin._retransmit_join_request
retransmit_join_request(cx, now) ==
    IF cx.mote.retransmission_count = <<MAX_RETRANSMIT>>
    THEN setIsSync([cx EXCEPT !.mote.request_timeout = 0,
                              !.mote.retransmission_count = Nil,
                              !.timer = Nil],
                   FALSE, now)
    ELSE IF \/ cx.mote.retransmission_count = Nil
            \/ cx.mote.retransmission_count[1] > MAX_RETRANSMIT
    THEN JoinRaise(cx, "AssertionError")
    ELSE LET doubled == [cx EXCEPT !.mote.request_timeout = 2 * @, !.timer = Nil]
             sent == send_join_request(doubled, now)
         IN [sent EXCEPT !.mote.retransmission_count =
                              <<cx.mote.retransmission_count[1] + 1>>]

\* Rpl.setRank
setRank(cx, newVal) == [cx EXCEPT !.mote.rank = <<newVal>>]

\* Rpl._rankToDagrank
rankToDagrank(r) == r \div RPL_MIN_HOP_RANK_INCREASE

\* Rpl.getDagRank
getDagRank(mote) == rankToDagrank(mote.rank[1])

\* Tsch._create_EB: the EB of a mote that has a rank; app is the dict of the
\* packet, from its keys to their values
create_EB(id, mote) ==
    [type |-> "EB",
     app |-> [k \in {"join_priority"} |-> getDagRank(mote)],
     mac |-> [srcMac |-> id, dstMac |-> BROADCAST_ADDRESS]]

\* Mote.__init__ and, on the DAG root, Mote.boot at ASN 0
JoinMoteInit(dagRoot) ==
    LET fresh == [mote |-> [dagRoot |-> dagRoot, isSync |-> FALSE,
                            join_proxy |-> Nil, schedule |-> EmptyDict,
                            isJoined |-> FALSE, retransmission_count |-> Nil,
                            request_timeout |-> 0, rank |-> Nil,
                            err |-> "none"],
                  log |-> <<>>, requests |-> <<>>, timer |-> Nil,
                  enabled |-> TRUE]
    IN IF dagRoot
       THEN setIsSync(
                add_minimal_cell(setRank(setIsJoined(fresh, TRUE, 0), 256), 0),
                TRUE, 0)
       ELSE fresh

NoJoin == [op |-> "none", srcMac |-> Nil, wasSync |-> FALSE, logLen |-> 0,
           asn |-> 0]

JoinIdle ==
    /\ secjoin_enabled = FALSE
    /\ pledge = JoinMoteInit(FALSE).mote
    /\ joinTimer = Nil
    /\ joinQueue = <<>>
    /\ joinResponses = 0
    /\ joinAsn = 0
    /\ joinSlotDone = -1
    /\ nJoinTicks = 0
    /\ lastEB = Nil
    /\ joinLog = <<>>
    /\ lastJoin = NoJoin

\* a mote before the first slot: a pledge that has not heard an EB yet, or
\* the DAG root after its boot
JoinInit ==
    /\ secjoin_enabled \in BOOLEAN
    /\ \E dagRoot \in BOOLEAN :
          /\ pledge = JoinMoteInit(dagRoot).mote
          /\ joinLog = JoinMoteInit(dagRoot).log
    /\ joinTimer = Nil
    /\ joinQueue = <<>>
    /\ joinResponses = 0
    /\ joinAsn = 0
    /\ joinSlotDone = -1
    /\ nJoinTicks = 0
    /\ lastEB = Nil
    /\ lastJoin = NoJoin

\* the mote and what its handlers write, as one value
JoinContext ==
    [mote |-> pledge, log |-> joinLog, requests |-> <<>>, timer |-> joinTimer,
     enabled |-> secjoin_enabled]

\* the state after a handler that returned cx; a request is lost when the
\* TX queue is full
JoinSet(cx) ==
    /\ pledge' = cx.mote
    /\ joinLog' = cx.log
    /\ joinTimer' = cx.timer
    /\ joinQueue' = IF Len(joinQueue) + Len(cx.requests) <= MaxJoinQueue
                    THEN joinQueue \o cx.requests
                    ELSE joinQueue

JoinRunning == pledge.err = "none"

\* the radio activity of the current slot is still to come: the stack tasks
\* of the slot are over and the mote has not sent or received a frame in it
JoinRadioFree == joinSlotDone < joinAsn /\ joinTimer # <<joinAsn>>

\* the engine moves to the next slot, after the events of the current one
JoinTick ==
    /\ JoinRunning
    /\ joinAsn < MaxJoinAsn
    /\ nJoinTicks < MaxJoinTicks
    /\ joinTimer # <<joinAsn>>
    /\ joinAsn' = joinAsn + 1
    /\ nJoinTicks' = nJoinTicks + 1
    /\ UNCHANGED <<secjoin_enabled, lastEB, pledge, joinTimer, joinQueue, joinResponses,
                   joinSlotDone, joinLog, lastJoin>>
    /\ UNCHANGED joinOthers

\* the engine moves to the slot of the retransmission event, through
\* slots in which the mote neither sends nor receives a frame
JoinTickToTimer ==
    /\ JoinRunning
    /\ joinTimer # Nil
    /\ joinTimer[1] > joinAsn
    /\ joinTimer[1] <= MaxJoinAsn
    /\ joinAsn' = joinTimer[1]
    /\ UNCHANGED <<secjoin_enabled, lastEB, pledge, joinTimer, joinQueue, joinResponses,
                   joinSlotDone, nJoinTicks, joinLog, lastJoin>>
    /\ UNCHANGED joinOthers

\* the DAG root sends an EB in the minimal cell: _tsch_action_active_cell
\* with _create_EB and its txDone.  A pledge has no rank in these runs (RPL
\* gives it one after it joined) and sends no EB.
JoinCreateEB ==
    /\ JoinRunning
    /\ JoinRadioFree
    /\ pledge.isSync
    /\ pledge.rank # Nil
    /\ 0 \in DOMAIN pledge.schedule
    /\ lastEB' = <<create_EB(DagRoot, pledge)>>
    /\ joinSlotDone' = joinAsn
    /\ lastJoin' = [op |-> "createEB", srcMac |-> Nil, wasSync |-> pledge.isSync,
                    logLen |-> Len(joinLog), asn |-> joinAsn]
    /\ UNCHANGED <<secjoin_enabled, pledge, joinTimer, joinQueue, joinResponses,
                   joinAsn, nJoinTicks, joinLog>>
    /\ UNCHANGED joinOthers

\* Tsch.rxDone of an EB: _tsch_action_receiveEB
JoinRecvEB ==
    /\ JoinRunning
    /\ JoinRadioFree
    /\ \E srcMac \in JoinNeighbors, timeout \in TimeoutSlots :
          \E cx \in {tsch_action_receiveEB(JoinContext, srcMac, joinAsn, timeout)} :
             /\ JoinSet(cx)
             /\ lastJoin' = [op |-> "receiveEB", srcMac |-> <<srcMac>>,
                             wasSync |-> pledge.isSync, logLen |-> Len(joinLog),
                             asn |-> joinAsn]
    /\ joinSlotDone' = joinAsn
    /\ UNCHANGED <<secjoin_enabled, lastEB, joinResponses, joinAsn, nJoinTicks>>
    /\ UNCHANGED joinOthers

\* the mote sends the join request at the head of its TX queue, chosen at
\* the start of the slot, in one of its cells; the response of the DAG root comes back, or the request or the
\* response is lost on the way
JoinTxRequest ==
    /\ JoinRunning
    /\ JoinRadioFree
    /\ pledge.isSync
    /\ DOMAIN pledge.schedule # {}
    /\ joinQueue # <<>>
    /\ Head(joinQueue).asn < joinAsn
    /\ joinQueue' = Tail(joinQueue)
    /\ \E answered \in BOOLEAN :
          joinResponses' = IF answered /\ joinResponses < MaxJoinResponses
                           THEN joinResponses + 1
                           ELSE joinResponses
    /\ joinSlotDone' = joinAsn
    /\ lastJoin' = [op |-> "txRequest", srcMac |-> Nil, wasSync |-> pledge.isSync,
                    logLen |-> Len(joinLog), asn |-> joinAsn]
    /\ UNCHANGED <<secjoin_enabled, lastEB, pledge, joinTimer, joinAsn, nJoinTicks, joinLog>>
    /\ UNCHANGED joinOthers

\* Tsch.rxDone of a JOIN_RESPONSE for the mote: SecJoin.receive
JoinRecvResponse ==
    /\ JoinRunning
    /\ JoinRadioFree
    /\ joinResponses > 0
    /\ joinResponses' = joinResponses - 1
    /\ \E cx \in {secjoin_receive_response(JoinContext, joinAsn)} :
          JoinSet(cx)
    /\ joinSlotDone' = joinAsn
    /\ lastJoin' = [op |-> "receiveResponse", srcMac |-> Nil,
                    wasSync |-> pledge.isSync, logLen |-> Len(joinLog),
                    asn |-> joinAsn]
    /\ UNCHANGED <<secjoin_enabled, lastEB, joinAsn, nJoinTicks>>
    /\ UNCHANGED joinOthers

\* the retransmission event of the current ASN: _retransmit_join_request
JoinRetransmit ==
    /\ JoinRunning
    /\ joinTimer = <<joinAsn>>
    /\ \E cx \in {retransmit_join_request(JoinContext, joinAsn)} :
          JoinSet(cx)
    /\ lastJoin' = [op |-> "retransmit", srcMac |-> Nil, wasSync |-> pledge.isSync,
                    logLen |-> Len(joinLog), asn |-> joinAsn]
    /\ UNCHANGED <<secjoin_enabled, lastEB, joinResponses, joinAsn, joinSlotDone, nJoinTicks>>
    /\ UNCHANGED joinOthers

JoinNext ==
    \/ JoinTick
    \/ JoinTickToTimer
    \/ JoinCreateEB
    \/ JoinRecvEB
    \/ JoinTxRequest
    \/ JoinRecvResponse
    \/ JoinRetransmit

(***************************************************************************)
(* The legacy mote: TX queue and retransmissions (SimEngine/Mote.py)       *)
(*                                                                         *)
(* One mote with a preferred parent and one dedicated cell (DIR_TX) to it. *)
(* Its application enqueues DATA packets for the DAG root; the cell sends  *)
(* the first packet of the queue for the parent, and radio_txDone reports  *)
(* an ACK, a NACK or neither.  Packets carry an id (the packets of the     *)
(* simulator differ by their asn and payload) and, as history, the number  *)
(* of times they were transmitted.                                         *)
(***************************************************************************)
DIR_TX          == "TX"
DIR_TXRX_SHARED == "SHARED"

\* the outcomes of a transmission: isACKed, isNACKed, or neither
TxOutcomes == {"ack", "nack", "none"}

\* a DATA packet as the application creates it
LegacyPacket(id) ==
    [id |-> id, type |-> "DATA", retriesLeft |-> TSCH_MAXTXRETRIES, numTx |-> 0]

\* Mote._tsch_enqueue of a DATA packet by a mote that has a route and a TX
\* cell: the queue it leaves
legacy_tsch_enqueue(q, packet) ==
    IF Len(q) = TSCH_QUEUE_SIZE THEN q ELSE Append(q, packet)

\* Mote._tsch_resetBackoff
legacy_tsch_resetBackoff ==
    [backoff |-> 0, backoffExponent |-> TSCH_MIN_BACKOFF_EXPONENT - 1]

\* radio_txDone's "if len(self.txQueue) == self.TSCH_QUEUE_SIZE" around the
\* removal of a packet whose retriesLeft is 0
legacy_drops(q) == Len(q) = TSCH_QUEUE_SIZE

\* radio_txDone: "retriesLeft" of the packet at index i after a NACK or a
\* missing ACK, and the removal of the packet
legacy_retry(q, i) ==
    LET left == IF q[i].retriesLeft > 0 THEN q[i].retriesLeft - 1
                ELSE q[i].retriesLeft
        q1 == [q EXCEPT ![i].retriesLeft = left]
    IN IF left = 0 /\ legacy_drops(q1) THEN RemoveAt(q1, i) ELSE q1

\* Mote.radio_txDone for the unicast DATA packet at index i of the queue, sent
\* in a cell of direction dir: the queue and the backoff state it leaves;
\* draw is the value of random.randint(0, 2 ** backoffExponent - 1)
radio_txDone(q, i, dir, bo, outcome, draw) ==
    LET resets(q1) == dir = DIR_TXRX_SHARED \/ (dir = DIR_TX /\ q1 = <<>>)
    IN IF outcome = "ack"
       THEN LET q1 == RemoveAt(q, i)
            IN [txQueue |-> q1,
                backoff |-> IF resets(q1) THEN legacy_tsch_resetBackoff ELSE bo]
       ELSE IF outcome = "nack"
       THEN LET q1 == legacy_retry(q, i)
            IN [txQueue |-> q1,
                backoff |-> IF resets(q1) THEN legacy_tsch_resetBackoff ELSE bo]
       ELSE [txQueue |-> legacy_retry(q, i),
             backoff |->
                IF dir = DIR_TXRX_SHARED
                THEN [backoff |-> draw,
                      backoffExponent |->
                          IF bo.backoffExponent < TSCH_MAX_BACKOFF_EXPONENT
                          THEN bo.backoffExponent + 1
                          ELSE bo.backoffExponent]
                ELSE bo]

NoLegacy == [op |-> "none", packet |-> Nil, outcome |-> "none", queueLen |-> 0]

\* the mote has not booted
LegacyIdle ==
    /\ legacyTxQueue = <<>>
    /\ legacyPktToSend = Nil
    /\ legacyWaitingFor = None
    /\ legacyBackoff = legacy_tsch_resetBackoff
    /\ legacyNextId = 0
    /\ nLegacyTx = 0
    /\ nLegacyEnq = 0
    /\ lastLegacy = NoLegacy

\* the mote has its cell; its queue is empty or one packet short of full
LegacyInit ==
    /\ \E n \in {0, TSCH_QUEUE_SIZE - 1} :
          /\ legacyTxQueue = [i \in 1..n |-> LegacyPacket(i - 1)]
          /\ legacyNextId = n
    /\ legacyPktToSend = Nil
    /\ legacyWaitingFor = None
    /\ legacyBackoff = legacy_tsch_resetBackoff
    /\ nLegacyTx = 0
    /\ nLegacyEnq = 0
    /\ lastLegacy = NoLegacy

\* the application hands a DATA packet for the DAG root to _tsch_enqueue
LegacyEnqueue ==
    /\ nLegacyEnq < MaxLegacyEnqueues
    /\ nLegacyEnq' = nLegacyEnq + 1
    /\ legacyTxQueue' = legacy_tsch_enqueue(legacyTxQueue, LegacyPacket(legacyNextId))
    /\ legacyNextId' = legacyNextId + 1
    /\ lastLegacy' = [op |-> "enqueue", packet |-> <<LegacyPacket(legacyNextId)>>,
                      outcome |-> "none", queueLen |-> Len(legacyTxQueue)]
    /\ UNCHANGED <<legacyPktToSend, legacyWaitingFor, legacyBackoff, nLegacyTx>>
    /\ UNCHANGED legacyOthers

\* Mote._tsch_action_activeCell in the DIR_TX cell: every packet of the queue
\* is a DATA packet for the parent, so the first one is sent
LegacyActiveCell ==
    /\ legacyWaitingFor = None
    /\ nLegacyTx < MaxLegacyTx
    /\ IF legacyTxQueue = <<>>
       THEN /\ legacyPktToSend' = Nil
            /\ UNCHANGED <<legacyTxQueue, legacyWaitingFor, nLegacyTx>>
            /\ lastLegacy' = [NoLegacy EXCEPT !.op = "idle"]
       ELSE /\ legacyTxQueue' = [legacyTxQueue EXCEPT ![1].numTx = @ + 1]
            /\ legacyPktToSend' = <<legacyTxQueue'[1]>>
            /\ legacyWaitingFor' = DIR_TX
            /\ nLegacyTx' = nLegacyTx + 1
            /\ lastLegacy' = [op |-> "tx", packet |-> <<legacyTxQueue'[1]>>,
                              outcome |-> "none", queueLen |-> Len(legacyTxQueue)]
    /\ UNCHANGED <<legacyBackoff, legacyNextId, nLegacyEnq>>
    /\ UNCHANGED legacyOthers

\* the propagation model calls radio_txDone of the mote
LegacyTxDone ==
    /\ legacyWaitingFor = DIR_TX
    /\ \E outcome \in TxOutcomes :
          LET i == FirstIndex({j \in 1..Len(legacyTxQueue) :
                                  legacyTxQueue[j] = legacyPktToSend[1]})
              r == radio_txDone(legacyTxQueue, i, DIR_TX, legacyBackoff, outcome, 0)
          IN /\ legacyTxQueue' = r.txQueue
             /\ legacyBackoff' = r.backoff
             /\ lastLegacy' = [op |-> "txDone", packet |-> legacyPktToSend,
                               outcome |-> outcome,
                               queueLen |-> Len(legacyTxQueue)]
    /\ legacyWaitingFor' = None
    /\ UNCHANGED <<legacyPktToSend, legacyNextId, nLegacyTx, nLegacyEnq>>
    /\ UNCHANGED legacyOthers

LegacyNext ==
    \/ LegacyEnqueue
    \/ LegacyActiveCell
    \/ LegacyTxDone

(***************************************************************************)
(* 6P exchanges between a mote and its parent (sixp.py)                    *)
(*                                                                         *)
(* Mote 1 is the initiator of the transactions, its parent, mote 0, the    *)
(* responder. The scheduling function of a mote (sf.py) is the caller of   *)
(* send_request and send_response and the callback of the transactions.    *)
(***************************************************************************)

TxnMotes == {0, 1}
TxnInitiators == {1}

SIXP_MSG_TYPE_REQUEST      == "REQUEST"
SIXP_MSG_TYPE_RESPONSE     == "RESPONSE"
SIXP_MSG_TYPE_CONFIRMATION == "CONFIRMATION"

SIXP_RC_SUCCESS    == "RC_SUCCESS"
SIXP_RC_ERR_BUSY   == "RC_ERR_BUSY"
SIXP_RC_ERR_SEQNUM == "RC_ERR_SEQNUM"

SIXP_TRANSACTION_TYPE_2_STEP == "2-step"
SIXP_TRANSACTION_TYPE_3_STEP == "3-step"

SIXP_CALLBACK_EVENT_PACKET_RECEPTION  == "PACKET_RECEPTION"
SIXP_CALLBACK_EVENT_MAC_ACK_RECEPTION == "MAC_ACK_RECEPTION"
SIXP_CALLBACK_EVENT_TIMEOUT           == "TIMEOUT"
SIXP_CALLBACK_EVENT_FAILURE           == "FAILURE"

\* the callback the scheduling function passes to the 6P layer
SfCallback == <<"sf">>

\* the cell lists of the requests: an empty one makes ADD a 3-step transaction
TxnCellLists == {<<>>, <<1>>}

\* the timeout_value the scheduling function passes: None or a number of slots
TxnTimeoutValues == {Nil, <<TxnShortTimeout>>}

\* a 6P packet as _create_packet makes it: mac.retriesLeft is absent until
\* tsch.enqueue sets it
TxnPacket(msgType, srcMac, dstMac, code, seqNum, cellList) ==
    [msgType |-> msgType, srcMac |-> srcMac, dstMac |-> dstMac, code |-> code,
     seqNum |-> seqNum, cellList |-> cellList, retriesLeft |-> Nil]

\* SixPTransaction.get_transaction_key of any 6P packet
packet_transaction_key(packet) ==
    IF packet.msgType = SIXP_MSG_TYPE_RESPONSE
    THEN <<packet.dstMac, packet.srcMac>>
    ELSE <<packet.srcMac, packet.dstMac>>

\* SixPTransaction._determine_transaction_type
determine_transaction_type(request) ==
    IF request.code = SIXP_CMD_ADD /\ Len(request.cellList) = 0
    THEN SIXP_TRANSACTION_TYPE_3_STEP
    ELSE SIXP_TRANSACTION_TYPE_2_STEP

\* SixPTransaction.__init__ on mote; timeout is the ASN of the event the
\* engine holds under the transaction's event_unique_tag, Nil when it holds
\* none
TxnTransaction(mote, request) ==
    [request |-> request, key |-> packet_transaction_key(request),
     type |-> determine_transaction_type(request),
     isInitiator |-> request.srcMac = mote,
     peerMac |-> IF request.srcMac = mote THEN request.dstMac
                 ELSE request.srcMac,
     callback |-> Nil, timeout |-> Nil]

\* SixPTransaction._get_default_timeout_value
get_default_timeout_value(transaction) ==
    LET be(i) == IF TSCH_MIN_BACKOFF_EXPONENT + i < TSCH_MAX_BACKOFF_EXPONENT
                 THEN TSCH_MIN_BACKOFF_EXPONENT + i
                 ELSE TSCH_MAX_BACKOFF_EXPONENT
        RECURSIVE sum(_)
        sum(i) == IF i = TSCH_MAXTXRETRIES THEN 0 ELSE be(i) + sum(i + 1)
        one_way_delay == tsch_slotframeLength * TSCH_MAXTXRETRIES * sum(0)
        num_round_trips ==
            IF transaction.type = SIXP_TRANSACTION_TYPE_2_STEP
            THEN IF transaction.isInitiator THEN 2 ELSE 1
            ELSE IF transaction.isInitiator THEN 3 ELSE 2
    IN  one_way_delay * num_round_trips

\* the 6P layer of one mote while a handler runs: its transaction table, its
\* SeqNum table, the packets it handed to tsch.enqueue that are not sent yet,
\* the calls of callbacks the handler made so far, the exception it raised
TxnLayer(m) ==
    [table |-> txnTable[m], seqnum |-> txnSeqnum[m], queue |-> txnQueue[m],
     calls |-> <<>>, err |-> "none"]

\* SixP._tsch_enqueue and Tsch.enqueue on a mote with a TX cell and room in
\* its TX queue
txn_tsch_enqueue(s, packet) ==
    [s EXCEPT !.queue = Append(@, [packet EXCEPT
                                      !.retriesLeft = <<TSCH_MAXTXRETRIES>>])]

\* SixPTransaction.invoke_callback; a call is recorded with whether the
\* transaction was in the transaction table when it was made
invoke_callback(s, transaction, event, packet) ==
    IF transaction.callback = Nil THEN s
    ELSE [s EXCEPT !.calls = Append(@, [event |-> event, packet |-> packet,
                                        open |-> transaction.key \in DOMAIN s.table])]

\* SixPTransaction.start for the transaction under key
transaction_start(s, key, callback, timeout_value, now) ==
    LET value == IF timeout_value = Nil
                 THEN get_default_timeout_value(s.table[key])
                 ELSE timeout_value[1]
    IN  [s EXCEPT !.table[key].callback = callback,
                  !.table[key].timeout = <<now + value>>]

\* SixPTransaction.complete
transaction_complete(s, transaction) ==
    IF transaction.peerMac \notin DOMAIN s.seqnum
    THEN [s EXCEPT !.err = "AssertionError"]
    ELSE [s EXCEPT !.seqnum = increment_seqnum(@, transaction.peerMac),
                   !.table = delete_transaction(@, transaction)]

\* SixP.send_request of mote me
send_request(s, me, dstMac, command, cellList, callback, timeout_value, now) ==
    LET sn == get_seqnum(s.seqnum, dstMac)
        packet == TxnPacket(SIXP_MSG_TYPE_REQUEST, me, dstMac, command,
                            sn.value, cellList)
        transaction == TxnTransaction(me, packet)
        r == add_transaction(s.table, transaction)
        s1 == [s EXCEPT !.seqnum = sn.table]
    IN  IF r.raised
        THEN [s1 EXCEPT !.calls = Append(@,
                 [event |-> SIXP_CALLBACK_EVENT_FAILURE, packet |-> <<packet>>,
                  open |-> TRUE])]
        ELSE txn_tsch_enqueue(
                 transaction_start([s1 EXCEPT !.table = r.table],
                                   transaction.key, callback, timeout_value, now),
                 packet)

\* SixP.send_response of mote me; seqNum is Nil unless the caller gives one
send_response(s, me, dstMac, return_code, seqNum, callback, timeout_value, now) ==
    LET key == <<dstMac, me>>
    IN  IF key \notin DOMAIN s.table
        THEN [s EXCEPT !.err = "AssertionError"]
        ELSE LET packet == TxnPacket(SIXP_MSG_TYPE_RESPONSE, me, dstMac,
                               return_code,
                               IF seqNum = Nil THEN s.table[key].request.seqNum
                               ELSE seqNum[1],
                               <<>>)
             IN  IF seqNum # Nil
                 THEN txn_tsch_enqueue(s, packet)
                 ELSE txn_tsch_enqueue(
                          transaction_start(s, key, callback, timeout_value, now),
                          packet)

\* SixP.send_confirmation of mote me
send_confirmation(s, me, dstMac, return_code, callback) ==
    LET key == <<me, dstMac>>
        packet == TxnPacket(SIXP_MSG_TYPE_CONFIRMATION, me, dstMac, return_code,
                            s.table[key].request.seqNum, <<>>)
    IN  txn_tsch_enqueue([s EXCEPT !.table[key].callback = callback], packet)

\* mutant: every request that finds an open transaction is ignored
recv_request_ignore_open(s, me, request, now) ==
    LET key == packet_transaction_key(request)
        transaction == TxnTransaction(me, request)
    IN  IF key \in DOMAIN s.table THEN s
        ELSE [s EXCEPT !.table = add_transaction(s.table, transaction).table,
                       !.seqnum = IF request.code = SIXP_CMD_CLEAR
                                  THEN reset_seqnum(@, request.srcMac)
                                  ELSE get_seqnum(@, request.srcMac).table]

\* SixP._recv_request of mote me. The scheduling function answers the
\* request it is given (sf.recv_request) with send_response, later.
recv_request(s, me, request, now) ==
    LET key == packet_transaction_key(request)
        found == find_transaction(s.table, key, request.seqNum)
        transaction == TxnTransaction(me, request)
        r == add_transaction(s.table, transaction)
        sn == get_seqnum(s.seqnum, request.srcMac)
    IN  IF found = Nil
        THEN IF r.raised
             THEN send_response(s, me, request.srcMac, SIXP_RC_ERR_BUSY,
                                <<request.seqNum>>, Nil, Nil, now)
             ELSE IF request.code # SIXP_CMD_CLEAR /\ request.seqNum # sn.value
             THEN send_response([s EXCEPT !.table = r.table,
                                          !.seqnum = sn.table],
                                me, transaction.peerMac, SIXP_RC_ERR_SEQNUM,
                                Nil, Nil, Nil, now)
             ELSE [s EXCEPT !.table = r.table,
                            !.seqnum = IF request.code = SIXP_CMD_CLEAR
                                       THEN reset_seqnum(@, request.srcMac)
                                       ELSE sn.table]
        ELSE IF request = found[1].request
        THEN s
        ELSE send_response(s, me, request.srcMac, SIXP_RC_ERR_BUSY,
                           Nil, Nil, Nil, now)

\* which branch of _recv_request a request takes
recv_request_outcome(s, me, request) ==
    LET key == packet_transaction_key(request)
        found == find_transaction(s.table, key, request.seqNum)
    IN  IF found = Nil
        THEN IF key \in DOMAIN s.table THEN "busy_seqnum"
             ELSE IF /\ request.code # SIXP_CMD_CLEAR
                     /\ request.seqNum # get_seqnum(s.seqnum, request.srcMac).value
             THEN "err_seqnum"
             ELSE "new"
        ELSE IF request = found[1].request THEN "duplicate" ELSE "busy"

\* SixP._recv_response of mote me. The callback of the scheduling function
\* answers the successful response of a 3-step transaction with
\* send_confirmation.
recv_response(s, me, response) ==
    LET key == packet_transaction_key(response)
        found == find_transaction(s.table, key, response.seqNum)
    IN  IF found = Nil THEN s
        ELSE LET transaction == found[1]
                 s1 == invoke_callback(s, transaction,
                           SIXP_CALLBACK_EVENT_PACKET_RECEPTION, <<response>>)
             IN  IF transaction.type = SIXP_TRANSACTION_TYPE_2_STEP
                 THEN transaction_complete(s1, transaction)
                 ELSE IF /\ transaction.callback # Nil
                         /\ response.code = SIXP_RC_SUCCESS
                 THEN send_confirmation(s1, me, response.srcMac,
                                        SIXP_RC_SUCCESS, SfCallback)
                 ELSE s1

\* SixP._recv_confirmation of mote me
recv_confirmation(s, me, confirmation) ==
    LET key == packet_transaction_key(confirmation)
        found == find_transaction(s.table, key, confirmation.seqNum)
    IN  IF found = Nil THEN s
        ELSE LET transaction == found[1]
                 s1 == invoke_callback(s, transaction,
                           SIXP_CALLBACK_EVENT_PACKET_RECEPTION, <<confirmation>>)
             IN  IF transaction.type = SIXP_TRANSACTION_TYPE_3_STEP
                 THEN transaction_complete(s1, transaction)
                 ELSE s1

\* SixP.recv_packet of mote me
recv_packet(s, me, packet, now) ==
    IF packet.msgType = SIXP_MSG_TYPE_REQUEST
    THEN recv_request(s, me, packet, now)
    ELSE IF packet.msgType = SIXP_MSG_TYPE_RESPONSE
    THEN recv_response(s, me, packet)
    ELSE recv_confirmation(s, me, packet)

\* mutant: the MAC ACK of any message completes the transaction
recv_mac_ack_any(s, me, packet) ==
    LET found == find_transaction(s.table, packet_transaction_key(packet),
                                  packet.seqNum)
    IN  IF found = Nil THEN s
        ELSE transaction_complete(
                 invoke_callback(s, found[1],
                     SIXP_CALLBACK_EVENT_MAC_ACK_RECEPTION, <<packet>>),
                 found[1])

\* SixP.recv_mac_ack of mote me, which Tsch.txDone calls for an acknowledged
\* 6P packet
recv_mac_ack(s, me, packet) ==
    LET found == find_transaction(s.table, packet_transaction_key(packet),
                                  packet.seqNum)
    IN  IF found = Nil THEN s
        ELSE IF \/ /\ packet.msgType = SIXP_MSG_TYPE_RESPONSE
                   /\ found[1].type = SIXP_TRANSACTION_TYPE_2_STEP
                \/ /\ packet.msgType = SIXP_MSG_TYPE_CONFIRMATION
                   /\ found[1].type = SIXP_TRANSACTION_TYPE_3_STEP
        THEN transaction_complete(
                 invoke_callback(s, found[1],
                     SIXP_CALLBACK_EVENT_MAC_ACK_RECEPTION, <<packet>>),
                 found[1])
        ELSE s

\* what the callback of the scheduling function does on TIMEOUT: nothing
\* (retry = Nil), or, on the initiator, a new request to the same peer
timeout_callback(s, me, transaction, retry, now) ==
    IF transaction.callback = Nil \/ retry = Nil THEN s
    ELSE send_request(s, me, transaction.peerMac, retry[1].command,
                      retry[1].cellList, SfCallback, retry[1].timeout_value, now)

\* mutant: the callback is invoked before the transaction is invalidated
timeout_handler_callback_first(s, me, key, retry, now) ==
    LET transaction == s.table[key]
        s1 == timeout_callback(
                  invoke_callback(s, transaction, SIXP_CALLBACK_EVENT_TIMEOUT, Nil),
                  me, transaction, retry, now)
    IN  [s1 EXCEPT !.table = delete_transaction(@, transaction)]

\* SixPTransaction._timeout_handler of the transaction under key:
\* _invalidate, then invoke_callback
timeout_handler(s, me, key, retry, now) ==
    LET transaction == s.table[key]
        s1 == [s EXCEPT !.table = delete_transaction(@, transaction)]
    IN  timeout_callback(
            invoke_callback(s1, transaction, SIXP_CALLBACK_EVENT_TIMEOUT, Nil),
            me, transaction, retry, now)

\* the requests the scheduling function makes: ADD with or without a cell
\* list, CLEAR
TxnRequests ==
    {q \in [command : SixpCommands, cellList : TxnCellLists,
            timeout_value : TxnTimeoutValues] :
        q.command = SIXP_CMD_CLEAR => q.cellList = <<>>}

\* history of one step
NoTxn == [op |-> None, mote |-> 0, key |-> Nil, packet |-> Nil, outcome |-> None,
          calls |-> <<>>, ackCalls |-> <<>>, retried |-> FALSE,
          seqnum |-> EmptyDict]

\* no 6P exchange
TxnIdle ==
    /\ txnTable = [m \in TxnMotes |-> EmptyDict]
    /\ txnSeqnum = [m \in TxnMotes |-> EmptyDict]
    /\ txnQueue = [m \in TxnMotes |-> <<>>]
    /\ txnAsn = 0
    /\ txnErr = "none"
    /\ nTxnOps = 0
    /\ lastTxn = NoTxn

\* both motes have joined and have exchanged no 6P packet yet
TxnInit == TxnIdle

\* both motes have completed one transaction with each other before the run
\* (SixPTransaction.complete on both): each holds SeqNum 1 for the other
TxnLaterInit ==
    /\ txnTable = [m \in TxnMotes |-> EmptyDict]
    /\ txnSeqnum = [m \in TxnMotes |->
                       increment_seqnum(get_seqnum(EmptyDict, 1 - m).table, 1 - m)]
    /\ txnQueue = [m \in TxnMotes |-> <<>>]
    /\ txnAsn = 0
    /\ txnErr = "none"
    /\ nTxnOps = 0
    /\ lastTxn = NoTxn

TxnRunning == txnErr = "none" /\ nTxnOps < MaxTxnOps

\* the ASN of the timeout events of the engine
TxnTimers ==
    UNION {{txnTable[m][k].timeout[1] :
               k \in {j \in DOMAIN txnTable[m] : txnTable[m][j].timeout # Nil}} :
           m \in TxnMotes}

\* no timeout is due before the radio activity of the next slot
TxnRadioFree == \A a \in TxnTimers : a > txnAsn + 1

\* the layer of mote m is s after a step
TxnSet(m, s) ==
    /\ txnTable' = [txnTable EXCEPT ![m] = s.table]
    /\ txnSeqnum' = [txnSeqnum EXCEPT ![m] = s.seqnum]
    /\ txnQueue' = [txnQueue EXCEPT ![m] = s.queue]
    /\ txnErr' = s.err

\* the scheduling function of the initiator calls send_request
TxnSendRequest ==
    /\ TxnRunning
    /\ \E m \in TxnInitiators, q \in TxnRequests :
       \E s \in {send_request(TxnLayer(m), m, 1 - m,
                              q.command, q.cellList, SfCallback, q.timeout_value,
                              txnAsn)} :
           /\ TxnSet(m, s)
           /\ lastTxn' = [NoTxn EXCEPT !.op = "send_request", !.mote = m,
                                       !.calls = s.calls]
    /\ nTxnOps' = nTxnOps + 1
    /\ UNCHANGED <<txnAsn, txnOthers>>

\* the scheduling function of the responder answers the request it was given
TxnSendResponse ==
    /\ TxnRunning
    /\ \E m \in TxnMotes, t \in TxnTimeoutValues :
       \E key \in DOMAIN txnTable[m] :
           /\ ~txnTable[m][key].isInitiator
           /\ txnTable[m][key].timeout = Nil
           /\ \E s \in {send_response(TxnLayer(m), m,
                                      txnTable[m][key].peerMac, SIXP_RC_SUCCESS,
                                      Nil, SfCallback, t, txnAsn)} :
                /\ TxnSet(m, s)
                /\ lastTxn' = [NoTxn EXCEPT !.op = "send_response", !.mote = m]
    /\ nTxnOps' = nTxnOps + 1
    /\ UNCHANGED <<txnAsn, txnOthers>>

\* a slot in which mote m sends the first packet of its queue and the
\* destination receives it: Tsch.rxDone of the destination (SixP.recv_packet),
\* then Tsch.txDone(isACKed=True) of m (SixP.recv_mac_ack, removal)
TxnDeliver ==
    /\ TxnRunning
    /\ TxnRadioFree
    /\ \E m \in {n \in TxnMotes : txnQueue[n] # <<>>} :
       LET packet == Head(txnQueue[m])
           dst == packet.dstMac
           now == txnAsn + 1
           before == TxnLayer(dst)
       IN  \E r \in {recv_packet(before, dst, packet, now)} :
           \E a \in {recv_mac_ack(TxnLayer(m),
                                  m, packet)} :
               /\ txnTable' = [txnTable EXCEPT ![dst] = r.table, ![m] = a.table]
               /\ txnSeqnum' = [txnSeqnum EXCEPT ![dst] = r.seqnum,
                                                 ![m] = a.seqnum]
               /\ txnQueue' = [txnQueue EXCEPT ![dst] = r.queue,
                                               ![m] = Tail(a.queue)]
               /\ txnErr' = IF r.err # "none" THEN r.err ELSE a.err
               /\ lastTxn' = [NoTxn EXCEPT
                     !.op = "deliver", !.mote = m, !.packet = <<packet>>,
                     !.outcome = IF packet.msgType = SIXP_MSG_TYPE_REQUEST
                                 THEN recv_request_outcome(before, dst, packet)
                                 ELSE None,
                     !.calls = r.calls, !.ackCalls = a.calls]
    /\ txnAsn' = txnAsn + 1
    /\ nTxnOps' = nTxnOps + 1
    /\ UNCHANGED txnOthers

\* a slot in which mote m sends the first packet of its queue and gets no
\* ACK: Tsch.txDone(isACKed=False)
TxnTxFail ==
    /\ TxnRunning
    /\ TxnRadioFree
    /\ \E m \in {n \in TxnMotes : txnQueue[n] # <<>>} :
       LET packet == Head(txnQueue[m])
           after == [packet EXCEPT !.retriesLeft = <<@[1] - 1>>]
       IN  /\ txnQueue' = [txnQueue EXCEPT
                  ![m] = IF after.retriesLeft = <<0>> THEN Tail(@)
                         ELSE <<after>> \o Tail(@)]
           /\ lastTxn' = [NoTxn EXCEPT !.op = "txfail", !.mote = m,
                                       !.packet = <<packet>>]
    /\ txnAsn' = txnAsn + 1
    /\ nTxnOps' = nTxnOps + 1
    /\ UNCHANGED <<txnTable, txnSeqnum, txnErr, txnOthers>>

\* the engine reaches the ASN of the next timeout event and calls
\* SixPTransaction._timeout_handler
TxnTimeout ==
    /\ TxnRunning
    /\ \E m \in TxnMotes :
       \E key \in DOMAIN txnTable[m] :
           /\ txnTable[m][key].timeout # Nil
           /\ \A a \in TxnTimers : txnTable[m][key].timeout[1] <= a
           /\ \E retry \in {Nil} \cup {<<q>> : q \in TxnRequests} :
              \E s \in {timeout_handler(TxnLayer(m),
                                        m, key, retry,
                                        txnTable[m][key].timeout[1])} :
                  /\ retry # Nil => /\ txnTable[m][key].callback # Nil
                                    /\ txnTable[m][key].isInitiator
                  /\ TxnSet(m, s)
                  /\ txnAsn' = txnTable[m][key].timeout[1]
                  /\ lastTxn' = [NoTxn EXCEPT
                        !.op = "timeout", !.mote = m, !.key = <<key>>,
                        !.calls = s.calls, !.retried = retry # Nil,
                        !.seqnum = txnSeqnum[m]]
    /\ nTxnOps' = nTxnOps + 1
    /\ UNCHANGED txnOthers

TxnNext ==
    \/ TxnSendRequest
    \/ TxnSendResponse
    \/ TxnDeliver
    \/ TxnTxFail
    \/ TxnTimeout

(***************************************************************************)
(* Stack tasks between the start of a slot and propagate: the join timer   *)
(* (secjoin.py: _retransmit_join_request; tsch.py: setIsSync, txDone,      *)
(* rxDone, _tsch_action_active_cell, _tsch_action_listeningForEB_cell)     *)
(*                                                                         *)
(* A pledge that heard the EB of the DAG root at ASN 0 and whose join      *)
(* requests are neither acknowledged nor answered.  Each slot has three steps, in the         *)
(* intra-slot order: the active cell or the listeningForEB cell, the       *)
(* retransmission event of the join process when it is due, and propagate, *)
(* which calls txDone or rxDone of the mote.                               *)
(***************************************************************************)
giveUpOthers == <<engineVars, rootVars, tschVars, sixpVars, lowpanVars, legacyVars,
                  txnVars, syncVars>>

\* the mote and what its handlers write, as one value
GiveUpContext ==
    [mote |-> [pledge EXCEPT !.schedule = cellSchedule], log |-> joinLog,
     requests |-> <<>>, timer |-> joinTimer, enabled |-> secjoin_enabled]

\* the TX queue after sixlowpan.sendPacket handed the requests to tsch.enqueue
GiveUpEnqueue(sched, q, requests) ==
    IF requests = <<>> THEN q
    ELSE enqueue(sched, q, "JOIN_REQUEST", requests[1].dstMac[1]).queue

\* the state after a handler that returned cx
GiveUpSet(cx) ==
    /\ pledge' = cx.mote
    /\ joinLog' = cx.log
    /\ joinTimer' = cx.timer
    /\ cellSchedule' = cx.mote.schedule
    /\ cellTxQueue' = GiveUpEnqueue(cx.mote.schedule, cellTxQueue, cx.requests)
    /\ cellErr' = cx.mote.err

\* the pledge at the end of ASN 0, in which it heard the EB
GiveUpInit ==
    /\ secjoin_enabled = TRUE
    /\ \E timeout \in TimeoutSlots :
          \E cx \in {receiveEB_unsynced(JoinMoteInit(FALSE), DagRoot, 0, timeout)} :
             /\ pledge = cx.mote
             /\ joinLog = cx.log
             /\ joinTimer = cx.timer
             /\ cellSchedule = cx.mote.schedule
             /\ cellTxQueue = GiveUpEnqueue(cx.mote.schedule, <<>>, cx.requests)
    /\ joinQueue = <<>>
    /\ joinResponses = 0
    /\ joinAsn = 0
    /\ joinSlotDone = 0
    /\ nJoinTicks = 0
    /\ lastEB = Nil
    /\ lastJoin = NoJoin
    /\ cellPktToSend = Nil
    /\ cellWaitingFor = None
    /\ cellBackoff = [exponent |-> TSCH_MIN_BACKOFF_EXPONENT, remaining |-> 0]
    /\ cellSlot = 0
    /\ cellErr = "none"
    /\ nCellOps = 0
    /\ lastCell = NoCell

GiveUpRunning == cellErr = "none" /\ pledge.err = "none"

\* the steps of the current slot that are still to come
GiveUpTimerDue == joinTimer = <<joinAsn>> /\ joinSlotDone < joinAsn
GiveUpPropagateDue == joinTimer # <<joinAsn>> /\ joinSlotDone < joinAsn

\* the start of the next slot: _tsch_action_listeningForEB_cell of a mote that
\* is not synchronised, _tsch_action_active_cell when the schedule has a cell
\* at the slot offset.  A pledge makes no EB and no DIO.
GiveUpStartSlot ==
    /\ GiveUpRunning
    /\ joinSlotDone = joinAsn
    /\ joinAsn < MaxGiveUpAsn
    /\ joinAsn' = joinAsn + 1
    /\ LET slot == (joinAsn + 1) % tsch_slotframeLength
       IN /\ cellSlot' = slot
          /\ IF ~pledge.isSync
             THEN /\ cellWaitingFor' = WAITING_FOR_RX
                  /\ lastCell' = [NoCell EXCEPT !.op = "listeningForEB", !.slot = slot]
                  /\ UNCHANGED <<cellSchedule, cellPktToSend, cellBackoff>>
             ELSE IF slot \notin DOMAIN cellSchedule
             THEN /\ lastCell' = [NoCell EXCEPT !.op = "slot", !.slot = slot]
                  /\ UNCHANGED <<cellSchedule, cellPktToSend, cellWaitingFor,
                                 cellBackoff>>
             ELSE \E r \in {tsch_action_active_cell(cellSchedule, cellSchedule[slot],
                                cellTxQueue, cellBackoff.remaining, Nil)} :
                    /\ cellBackoff' = [cellBackoff EXCEPT
                                          !.remaining = r.backoff_remaining_delay]
                    /\ cellPktToSend' = IF r.radio = RADIO_STATE_TX
                                        THEN r.pktToSend ELSE Nil
                    /\ cellWaitingFor' = IF r.radio = RADIO_STATE_TX THEN WAITING_FOR_TX
                                         ELSE IF r.radio = RADIO_STATE_RX
                                         THEN WAITING_FOR_RX
                                         ELSE None
                    /\ cellSchedule' =
                          IF r.radio = RADIO_STATE_TX
                          THEN [cellSchedule EXCEPT ![slot] = tsch_action_TX_stats(@)]
                          ELSE cellSchedule
                    /\ lastCell' = [op |-> IF r.radio = RADIO_STATE_TX THEN "TX"
                                           ELSE "slot",
                                    slot |-> slot, occupied |-> TRUE,
                                    before |-> <<cellSchedule[slot]>>,
                                    pkt |-> IF r.radio = RADIO_STATE_TX
                                            THEN r.pktToSend ELSE Nil]
    /\ UNCHANGED <<cellTxQueue, cellErr, nCellOps>>
    /\ UNCHANGED <<secjoin_enabled, pledge, joinTimer, joinQueue, joinResponses,
                   joinSlotDone, nJoinTicks, joinLog, lastEB, lastJoin>>
    /\ UNCHANGED giveUpOthers

\* the retransmission event of the current ASN, a stack task:
\* _retransmit_join_request
GiveUpTimer ==
    /\ GiveUpRunning
    /\ GiveUpTimerDue
    /\ \E cx \in {retransmit_join_request(GiveUpContext, joinAsn)} :
          GiveUpSet(cx)
    /\ lastJoin' = [op |-> "retransmit", srcMac |-> Nil, wasSync |-> pledge.isSync,
                    logLen |-> Len(joinLog), asn |-> joinAsn]
    /\ UNCHANGED <<cellPktToSend, cellWaitingFor, cellBackoff, cellSlot, nCellOps,
                   lastCell>>
    /\ UNCHANGED <<secjoin_enabled, joinQueue, joinResponses, joinAsn, joinSlotDone,
                   nJoinTicks, lastEB>>
    /\ UNCHANGED giveUpOthers

\* propagate takes the txTime of the transmission of the mote
\* (computeTimeOffsetToDagRoot, which asserts getIsSync()) and calls its txDone,
\* whose first statement reads self.schedule[slotOffset]; the join proxy is out
\* of reach and acknowledges no frame
GiveUpTxDone ==
    /\ GiveUpRunning
    /\ GiveUpPropagateDue
    /\ cellWaitingFor = WAITING_FOR_TX
    /\ joinSlotDone' = joinAsn
    /\ IF ~pledge.isSync
       THEN /\ cellErr' = "AssertionError"
            /\ lastCell' = [op |-> "txTime", slot |-> cellSlot,
                            occupied |-> cellSlot \in DOMAIN cellSchedule,
                            before |-> Nil, pkt |-> cellPktToSend]
            /\ UNCHANGED <<cellSchedule, cellTxQueue, cellPktToSend, cellWaitingFor,
                           cellBackoff>>
       ELSE IF cellSlot \notin DOMAIN cellSchedule
       THEN /\ cellErr' = "KeyError"
            /\ lastCell' = [op |-> "txDone", slot |-> cellSlot, occupied |-> FALSE,
                            before |-> Nil, pkt |-> cellPktToSend]
            /\ UNCHANGED <<cellSchedule, cellTxQueue, cellPktToSend, cellWaitingFor,
                           cellBackoff>>
       ELSE LET pkt == cellPktToSend[1]
                cell == cellSchedule[cellSlot]
            IN \E isACKed \in {FALSE} :
               \E delay \in {0, 2^TSCH_MIN_BACKOFF_EXPONENT - 1,
                              2^TSCH_MAX_BACKOFF_EXPONENT - 1} :
                 /\ delay <= (LET bo == update_backoff_state(cellBackoff.exponent,
                                            is_retransmission(pkt),
                                            CELLOPTION_SHARED \in cell.cellOptions,
                                            isACKed, Len(cellTxQueue))
                              IN IF bo.draws THEN 2^bo.exponent - 1 ELSE 0)
                 /\ \E r \in {txDone(cellTxQueue, pkt, cell, cellBackoff.exponent,
                                     cellBackoff.remaining, isACKed, delay)} :
                      /\ cellTxQueue' = r.txQueue
                      /\ cellBackoff' = [exponent |-> r.backoff_exponent,
                                         remaining |-> r.backoff_remaining_delay]
                      /\ cellSchedule' = [cellSchedule EXCEPT
                                             ![cellSlot] = txDone_stats(@, pkt, isACKed)]
                      /\ lastCell' = [op |-> "txDone", slot |-> cellSlot,
                                      occupied |-> TRUE, before |-> <<cell>>,
                                      pkt |-> cellPktToSend]
                 /\ cellPktToSend' = Nil
                 /\ cellWaitingFor' = None
                 /\ cellErr' = cellErr
    /\ UNCHANGED <<cellSlot, nCellOps>>
    /\ UNCHANGED <<secjoin_enabled, pledge, joinTimer, joinQueue, joinResponses,
                   joinAsn, nJoinTicks, joinLog, lastEB, lastJoin>>
    /\ UNCHANGED giveUpOthers

\* propagate calls rxDone of the mote, with no frame or with an EB the DAG
\* root sent in its minimal cell: the assertions of a synchronised mote, numRx,
\* _tsch_action_receiveEB
GiveUpRxDone ==
    /\ GiveUpRunning
    /\ GiveUpPropagateDue
    /\ cellWaitingFor = WAITING_FOR_RX
    /\ joinSlotDone' = joinAsn
    /\ \E packet \in {Nil, <<[type |-> "EB", dstMac |-> BROADCAST_ADDRESS]>>} :
         /\ packet # Nil => cellSlot = 0 /\ nCellOps < MaxGiveUpEBs
         /\ nCellOps' = IF packet # Nil THEN nCellOps + 1 ELSE nCellOps
         /\ lastCell' = [op |-> "rxDone", slot |-> cellSlot,
                         occupied |-> cellSlot \in DOMAIN cellSchedule,
                         before |-> Nil, pkt |-> packet]
         /\ IF /\ pledge.isSync
               /\ \/ cellSlot \notin DOMAIN cellSchedule
                  \/ CELLOPTION_RX \notin cellSchedule[cellSlot].cellOptions
            THEN /\ cellErr' = "AssertionError"
                 /\ UNCHANGED <<cellSchedule, cellTxQueue, cellWaitingFor, pledge,
                                joinLog, joinTimer>>
            ELSE /\ cellWaitingFor' = None
                 /\ IF packet = Nil
                    THEN UNCHANGED <<cellSchedule, cellTxQueue, cellErr, pledge, joinLog,
                                     joinTimer>>
                    ELSE \E timeout \in TimeoutSlots :
                         \E cx \in {tsch_action_receiveEB(
                                       [GiveUpContext EXCEPT !.mote.schedule =
                                           IF pledge.isSync
                                           THEN [cellSchedule EXCEPT
                                                    ![cellSlot].numRx = @ + 1]
                                           ELSE cellSchedule],
                                       DagRoot, joinAsn, timeout)} :
                            GiveUpSet(cx)
    /\ UNCHANGED <<cellPktToSend, cellBackoff, cellSlot>>
    /\ UNCHANGED <<secjoin_enabled, joinQueue, joinResponses, joinAsn, nJoinTicks,
                   lastEB, lastJoin>>
    /\ UNCHANGED giveUpOthers

\* propagate in a slot in which the radio of the mote is off
GiveUpIdleSlot ==
    /\ GiveUpRunning
    /\ GiveUpPropagateDue
    /\ cellWaitingFor = None
    /\ joinSlotDone' = joinAsn
    /\ UNCHANGED cellVars
    /\ UNCHANGED <<secjoin_enabled, pledge, joinTimer, joinQueue, joinResponses,
                   joinAsn, nJoinTicks, joinLog, lastEB, lastJoin>>
    /\ UNCHANGED giveUpOthers

GiveUpNext ==
    \/ GiveUpStartSlot
    \/ GiveUpTimer
    \/ GiveUpTxDone
    \/ GiveUpRxDone
    \/ GiveUpIdleSlot

(***************************************************************************)
(* Stack tasks between the start of a slot and propagate: a fresh DAO      *)
(* (rpl.py: _action_enqueueDAO; tsch.py: remove_frame_from_tx_queue,       *)
(* txDone)                                                                 *)
(*                                                                         *)
(* The mote of the schedule above, with its preferred parent 0.  RPL       *)
(* enqueues a DAO when its timer fires, in any slot, after the active cell *)
(* of the slot and before propagate.  A DAO carries obj, the identity of   *)
(* its dict: txDone decrements retriesLeft of the dict pktToSend refers    *)
(* to, and list.remove takes the first frame of the queue that is equal.   *)
(***************************************************************************)
\* Tsch.remove_frame_from_tx_queue
RECURSIVE remove_frame_from_tx_queue(_, _, _)
remove_frame_from_tx_queue(q, type, dstMac) ==
    IF q = <<>> THEN <<>>
    ELSE LET rest == remove_frame_from_tx_queue(Tail(q), type, dstMac)
         IN IF /\ Head(q).type = type
               /\ dstMac = Nil \/ <<Head(q).dstMac>> = dstMac
            THEN rest
            ELSE <<Head(q)>> \o rest

\* the DAO as tsch.enqueue stores it, obj being the identity of the dict
DaoFrame(dstMac, obj) ==
    [type |-> "DAO", dstMac |-> dstMac, retriesLeft |-> TSCH_MAXTXRETRIES,
     txdone_noack |-> 0, obj |-> obj]

\* Rpl._action_enqueueDAO of a mote with preferred parent parent: the DAOs of
\* the queue are removed and the new one goes through 6LoWPAN to tsch.enqueue
action_enqueueDAO(sched, q, parent, obj) ==
    LET removed == remove_frame_from_tx_queue(q, "DAO", Nil)
    IN IF enqueue(sched, removed, "DAO", parent).goOn
       THEN Append(removed, DaoFrame(parent, obj))
       ELSE removed

\* "==" of two frames: the dicts hold the same values
FrameEquals(a, b) ==
    /\ a.type = b.type
    /\ a.dstMac = b.dstMac
    /\ a.retriesLeft = b.retriesLeft

\* "self.getTxQueue().remove(x)" of txDone: the index of the frame it removes,
\* 0 when it raises ValueError
txDone_remove_index(q, x) ==
    FirstIndex({j \in 1..Len(q) : FrameEquals(q[j], x)})

\* the RPL timer of the mote fires: _action_sendDAO
DaoEnqueueDAO ==
    /\ CellRunning
    /\ cellTxQueue' = action_enqueueDAO(cellSchedule, cellTxQueue, DagRoot,
                                        nCellOps)
    /\ nCellOps' = nCellOps + 1
    /\ lastCell' = [NoCell EXCEPT !.op = "enqueueDAO", !.slot = cellSlot,
                                  !.pkt = cellPktToSend]
    /\ UNCHANGED <<cellSchedule, cellPktToSend, cellWaitingFor, cellBackoff,
                   cellSlot, cellErr, cellOthers>>

\* Connectivity.propagate calls txDone of the mote
DaoTxDone ==
    /\ cellErr = "none"
    /\ cellWaitingFor = WAITING_FOR_TX
    /\ LET pkt == cellPktToSend[1]
           cell == cellSchedule[cellSlot]
           unicast == pkt.dstMac # BROADCAST_ADDRESS
           queued == \E j \in 1..Len(cellTxQueue) : cellTxQueue[j] = pkt
       IN \E isACKed \in (IF unicast THEN BOOLEAN ELSE {FALSE}) :
          \E delay \in 0..(2^TSCH_MAX_BACKOFF_EXPONENT - 1) :
            /\ delay <= (IF unicast
                         THEN LET bo == update_backoff_state(cellBackoff.exponent,
                                           is_retransmission(pkt),
                                           CELLOPTION_SHARED \in cell.cellOptions,
                                           isACKed, Len(cellTxQueue))
                              IN IF bo.draws THEN 2^bo.exponent - 1 ELSE 0
                         ELSE 0)
            /\ \E r \in {txDone(cellTxQueue, pkt, cell, cellBackoff.exponent,
                                cellBackoff.remaining, isACKed, delay)} :
               \E x \in {IF unicast /\ ~isACKed
                         THEN [pkt EXCEPT !.retriesLeft = @ - 1] ELSE pkt} :
               \E i \in {IF unicast /\ ~queued
                         THEN txDone_remove_index(cellTxQueue, x) ELSE 0} :
                 /\ cellBackoff' = [exponent |-> r.backoff_exponent,
                                    remaining |-> r.backoff_remaining_delay]
                 /\ cellSchedule' = [cellSchedule EXCEPT
                                        ![cellSlot] = txDone_stats(@, pkt, isACKed)]
                 /\ lastCell' = [op |-> "txDone", slot |-> cellSlot,
                                 occupied |-> TRUE, before |-> <<cell>>,
                                 pkt |-> cellPktToSend]
                 /\ IF ~unicast \/ queued
                    THEN /\ cellTxQueue' = r.txQueue
                         /\ cellPktToSend' = Nil
                         /\ cellWaitingFor' = None
                         /\ cellErr' = cellErr
                    ELSE IF ~isACKed /\ x.retriesLeft > 0
                    THEN /\ cellTxQueue' = cellTxQueue
                         /\ cellPktToSend' = Nil
                         /\ cellWaitingFor' = None
                         /\ cellErr' = cellErr
                    ELSE IF i # 0
                    THEN /\ cellTxQueue' = RemoveAt(cellTxQueue, i)
                         /\ cellPktToSend' = Nil
                         /\ cellWaitingFor' = None
                         /\ cellErr' = cellErr
                    ELSE /\ cellErr' = "ValueError"
                         /\ UNCHANGED <<cellTxQueue, cellPktToSend, cellWaitingFor>>
    /\ UNCHANGED <<cellSlot, nCellOps, cellOthers>>

DaoNext ==
    \/ CellEnqueue
    \/ CellActiveCell
    \/ DaoEnqueueDAO
    \/ DaoTxDone
    \/ CellRxDone

(***************************************************************************)
(* TSCH: the time correction of one mote (tsch.py: txDone, rxDone)         *)
(*                                                                         *)
(* The mote is mote 1 of the line 0 - 1 - 2, synchronised and joined, with *)
(* mote 0 as its preferred parent.  It has the minimal cell and, when its  *)
(* scheduling function has allocated one, a cell with its parent.          *)
(***************************************************************************)
syncOthers == <<engineVars, rootVars, tschVars, sixpVars, lowpanVars, joinVars,
                legacyVars, txnVars>>

NoSync == [op |-> None, isACKed |-> FALSE, pkt |-> Nil, cell |-> Nil, before |-> Nil]

\* the mote is not synchronised
NoOffset == [done |-> FALSE, mote |-> 0, err |-> "none", outcome |-> None,
             offset |-> 0, steps |-> 0]

\* no mote has booted
OffsetIdle ==
    /\ offsetMotes = <<>>
    /\ lastOffset = NoOffset

\* a mote that has heard no DIO (Rpl.__init__)
RplFresh == [neighborRank |-> EmptyDict, parentSet |-> <<>>, preferredParent |-> Nil,
             rank |-> Nil]

NoRpl == [done |-> FALSE, before |-> RplFresh, potential |-> EmptyDict,
          chosen |-> Nil, err |-> "none"]

RplIdle ==
    /\ rplState = RplFresh
    /\ lastRpl = NoRpl

SyncIdle ==
    /\ syncAsn = 0
    /\ asnLastSync = Nil
    /\ lastSync = NoSync
    /\ OffsetIdle
    /\ RplIdle

\* Rpl.getPreferredParent of the mote
SyncPreferredParent == <<getPreferredParent(CellMote)>>

\* Tsch.txDone, "time correction": asnLastSync after the frame pkt was sent
\* in cell at ASN now
txDone_asnLastSync(last, pkt, cell, preferredParent, isACKed, now) ==
    IF pkt.dstMac # BROADCAST_ADDRESS /\ isACKed /\ cell.neighbor = preferredParent
    THEN <<now>>
    ELSE last

\* Tsch.rxDone, "time correction": asnLastSync after packet was received by
\* mote me at ASN now
rxDone_asnLastSync(last, packet, me, preferredParent, now) ==
    IF /\ packet # Nil
       /\ packet[1].dstMac \in {BROADCAST_ADDRESS, me}
       /\ <<packet[1].srcMac>> = preferredParent
    THEN <<now>>
    ELSE last

\* the cells the mote has with its parent
SyncParentCells ==
    {<<>>,
     1 :> NewCell(1, SyncPreferredParent, {CELLOPTION_TX}),
     1 :> NewCell(1, SyncPreferredParent,
                  {CELLOPTION_TX, CELLOPTION_RX, CELLOPTION_SHARED})}

\* the mote synchronised at ASN 0 (setIsSync: asnLastSync is that ASN) and
\* has joined; the run starts at the first slot of a later slotframe
SyncInit ==
    /\ \E cells \in SyncParentCells :
          cellSchedule =
              (0 :> NewCell(0, Nil, Tsch_MINIMAL_SHARED_CELL.cellOptions)) @@ cells
    /\ cellTxQueue = <<>>
    /\ cellBackoff = [exponent |-> TSCH_MIN_BACKOFF_EXPONENT, remaining |-> 0]
    /\ cellPktToSend = Nil
    /\ cellWaitingFor = None
    /\ cellSlot = 0
    /\ cellErr = "none"
    /\ nCellOps = 0
    /\ lastCell = NoCell
    /\ syncAsn = tsch_slotframeLength
    /\ asnLastSync = <<0>>
    /\ lastSync = NoSync
    /\ OffsetIdle
    /\ RplIdle

\* the next slot: Tsch._tsch_action_active_cell when the schedule has a cell
\* at its offset
SyncActiveCell ==
    /\ cellErr = "none"
    /\ cellWaitingFor = None
    /\ syncAsn < MaxSyncAsn
    /\ syncAsn' = syncAsn + 1
    /\ LET slot == (syncAsn + 1) % tsch_slotframeLength
       IN /\ cellSlot' = slot
          /\ IF slot \notin DOMAIN cellSchedule
             THEN /\ lastCell' = [NoCell EXCEPT !.op = "slot", !.slot = slot]
                  /\ UNCHANGED <<cellSchedule, cellPktToSend, cellWaitingFor,
                                 cellBackoff, cellErr>>
             ELSE \E r \in {tsch_action_active_cell(cellSchedule, cellSchedule[slot],
                                cellTxQueue, cellBackoff.remaining, Nil)} :
                    /\ cellBackoff' = [cellBackoff EXCEPT
                                          !.remaining = r.backoff_remaining_delay]
                    /\ cellErr' = IF r.radio = "NotImplementedError"
                                  THEN "NotImplementedError" ELSE cellErr
                    /\ cellPktToSend' = IF r.radio = RADIO_STATE_TX
                                        THEN r.pktToSend ELSE Nil
                    /\ cellWaitingFor' = IF r.radio = RADIO_STATE_TX THEN WAITING_FOR_TX
                                         ELSE IF r.radio = RADIO_STATE_RX
                                         THEN WAITING_FOR_RX
                                         ELSE None
                    /\ cellSchedule' =
                          IF r.radio = RADIO_STATE_TX
                          THEN [cellSchedule EXCEPT
                                   ![slot] = tsch_action_TX_stats(@)]
                          ELSE cellSchedule
                    /\ lastCell' = [op |-> IF r.radio = RADIO_STATE_TX THEN "TX"
                                           ELSE "slot",
                                    slot |-> slot, occupied |-> TRUE,
                                    before |-> <<cellSchedule[slot]>>,
                                    pkt |-> IF r.radio = RADIO_STATE_TX
                                            THEN r.pktToSend ELSE Nil]
    /\ lastSync' = NoSync
    /\ UNCHANGED <<cellTxQueue, nCellOps, asnLastSync, offsetVars, rplVars, syncOthers>>

\* Connectivity.propagate calls txDone of the mote
SyncTxDone ==
    /\ cellErr = "none"
    /\ cellWaitingFor = WAITING_FOR_TX
    /\ LET pkt == cellPktToSend[1]
           cell == cellSchedule[cellSlot]
       IN \E isACKed \in BOOLEAN :
          \E delay \in {0, 2^TSCH_MIN_BACKOFF_EXPONENT - 1} :
          \E r \in {txDone(cellTxQueue, pkt, cell, cellBackoff.exponent,
                           cellBackoff.remaining, isACKed, delay)} :
            /\ cellTxQueue' = r.txQueue
            /\ cellBackoff' = [exponent |-> r.backoff_exponent,
                               remaining |-> r.backoff_remaining_delay]
            /\ cellSchedule' = [cellSchedule EXCEPT
                                   ![cellSlot] = txDone_stats(@, pkt, isACKed)]
            /\ asnLastSync' = txDone_asnLastSync(asnLastSync, pkt, cell,
                                  SyncPreferredParent, isACKed, syncAsn)
            /\ lastCell' = [op |-> "txDone", slot |-> cellSlot,
                            occupied |-> TRUE, before |-> <<cell>>,
                            pkt |-> cellPktToSend]
            /\ lastSync' = [op |-> "txDone", isACKed |-> isACKed,
                            pkt |-> cellPktToSend, cell |-> <<cell>>,
                            before |-> asnLastSync]
    /\ cellPktToSend' = Nil
    /\ cellWaitingFor' = None
    /\ UNCHANGED <<cellSlot, cellErr, nCellOps, syncAsn, offsetVars, rplVars, syncOthers>>

\* Connectivity.propagate calls rxDone of the mote: with no frame, or with a
\* frame of a neighbour for the mote, for another mote or for all
SyncRxDone ==
    /\ cellErr = "none"
    /\ cellWaitingFor = WAITING_FOR_RX
    /\ \E packet \in {Nil} \cup
                     {<<[type |-> "DATA", srcMac |-> src, dstMac |-> dst]>> :
                          src \in CellNeighbors,
                          dst \in {CellMote, 0, BROADCAST_ADDRESS}} :
         /\ packet # Nil => packet[1].srcMac # packet[1].dstMac
         /\ cellSchedule' =
               IF packet # Nil /\ packet[1].dstMac \in {BROADCAST_ADDRESS, CellMote}
               THEN [cellSchedule EXCEPT ![cellSlot].numRx = @ + 1]
               ELSE cellSchedule
         /\ asnLastSync' = rxDone_asnLastSync(asnLastSync, packet, CellMote,
                               SyncPreferredParent, syncAsn)
         /\ lastCell' = [op |-> "rxDone", slot |-> cellSlot, occupied |-> TRUE,
                         before |-> <<cellSchedule[cellSlot]>>, pkt |-> packet]
         /\ lastSync' = [op |-> "rxDone", isACKed |-> rxDone_isACKed(packet, CellMote),
                         pkt |-> packet, cell |-> <<cellSchedule[cellSlot]>>,
                         before |-> asnLastSync]
    /\ cellWaitingFor' = None
    /\ UNCHANGED <<cellTxQueue, cellPktToSend, cellBackoff, cellSlot, cellErr,
                   nCellOps, syncAsn, offsetVars, rplVars, syncOthers>>

SyncNext ==
    \/ CellEnqueue
    \/ SyncActiveCell
    \/ SyncTxDone
    \/ SyncRxDone


(***************************************************************************)
(* TSCH: the clock offset of a mote to the DAG root                        *)
(* (tsch.py: computeTimeOffsetToDagRoot, called by Connectivity.propagate  *)
(* for the sender of every transmission)                                   *)
(*                                                                         *)
(* A network of motes at one ASN.  Mote 0 is the DAG root.  Every other    *)
(* mote is not synchronised (it has heard no EB, or its join process gave  *)
(* up: setIsSync(False) leaves asnLastSync and join_proxy None and the     *)
(* preferred parent as it was), or it is synchronised with a join proxy,   *)
(* with or without a preferred parent.  The motes others have as join      *)
(* proxy or preferred parent are the root and synchronised motes with a    *)
(* preferred parent: Rpl sends DIOs only when activated after the join and *)
(* with a preferred parent (rpl.py, _action_sendDIO), which it never       *)
(* unsets, and the join process, the only caller of setIsSync(False), ends *)
(* when the mote has joined.  The offset is kept in units of               *)
(* tsch_slotDuration.                                                      *)
(***************************************************************************)
offsetOthers == <<engineVars, rootVars, tschVars, sixpVars, lowpanVars, cellVars,
                  joinVars, legacyVars, txnVars, syncAsn, asnLastSync, lastSync,
                  rplVars>>

OffsetMoteIds == 0..(OffsetNumMotes - 1)

\* the ASN of the engine at the call
OffsetAsn == 2 * tsch_slotframeLength

\* the ASNs at which a synchronised mote last corrected its time
OffsetSyncAsns == {0, tsch_slotframeLength}

\* Radio.drift of the motes, in ppm
OffsetDrift(m) == IF m = DagRoot THEN 0 ELSE IF m % 2 = 1 THEN 3 * m ELSE 0 - 2 * m

OffsetRoot ==
    [dagRoot |-> TRUE, isSync |-> TRUE, asnLastSync |-> <<0>>, join_proxy |-> Nil,
     preferredParent |-> Nil]

\* the states of a mote that is not the root
OffsetMoteStates(m) ==
    {[dagRoot |-> FALSE, isSync |-> FALSE, asnLastSync |-> Nil, join_proxy |-> Nil,
      preferredParent |-> p] :
          p \in {Nil} \cup {<<n>> : n \in OffsetMoteIds \ {m}}}
    \cup {[dagRoot |-> FALSE, isSync |-> TRUE, asnLastSync |-> <<a>>,
           join_proxy |-> <<j>>, preferredParent |-> p] :
              a \in OffsetSyncAsns,
              j \in OffsetMoteIds \ {m},
              p \in {Nil} \cup {<<n>> : n \in OffsetMoteIds \ {m}}}

\* the motes that send EBs and DIOs
OffsetAdvertising(net) ==
    {n \in OffsetMoteIds :
        net[n].dagRoot \/ (net[n].isSync /\ net[n].preferredParent # Nil)}

OffsetNetworks ==
    {net \in [OffsetMoteIds -> {OffsetRoot} \cup UNION {OffsetMoteStates(m) : m \in OffsetMoteIds}] :
        /\ net[DagRoot] = OffsetRoot
        /\ \A m \in OffsetMoteIds \ {DagRoot} :
              /\ net[m] \in OffsetMoteStates(m)
              /\ net[m].join_proxy # Nil => net[m].join_proxy[1] \in OffsetAdvertising(net)
              /\ net[m].preferredParent # Nil =>
                     net[m].preferredParent[1] \in OffsetAdvertising(net)}

\* "parent.id in parents"
loop_detected(parent, parents) == \E i \in 1..Len(parents) : parents[i] = parent

\* the "while True" of computeTimeOffsetToDagRoot, from the test at its head;
\* fuel: the passes left before the walk is given up as not ending
RECURSIVE walkTimeOffset(_, _, _, _, _, _, _)
walkTimeOffset(motes, child, parent, parents, offset, now, fuel) ==
    LET ret(e, o, f) == [err |-> e, outcome |-> o, offset |-> f,
                         steps |-> Len(parents)]
    IN IF fuel = 0 THEN ret("none", "running", offset)
       ELSE IF loop_detected(parent, parents) \/ motes[child].asnLastSync = Nil
       THEN ret("none", "aborted", offset)
       ELSE LET secSinceSync == now - motes[child].asnLastSync[1]
                relDrift == OffsetDrift(child) - OffsetDrift(parent)
                sum == offset + relDrift * secSinceSync
            IN IF motes[parent].dagRoot
               THEN [ret("none", "root", sum) EXCEPT !.steps = @ + 1]
               ELSE IF motes[parent].preferredParent = Nil
               THEN \* engine.motes[None]
                    [ret("TypeError", None, sum) EXCEPT !.steps = @ + 1]
               ELSE walkTimeOffset(motes, parent, motes[parent].preferredParent[1],
                                   Append(parents, parent), sum, now, fuel - 1)

\* Tsch.computeTimeOffsetToDagRoot of mote me at ASN now
computeTimeOffsetToDagRoot(motes, me, now) ==
    LET ret(e, o) == [err |-> e, outcome |-> o, offset |-> 0, steps |-> 0]
        parent_id == IF motes[me].preferredParent # Nil
                     THEN motes[me].preferredParent
                     ELSE motes[me].join_proxy
    IN IF ~motes[me].isSync \/ motes[me].asnLastSync = Nil
       THEN ret("AssertionError", None)
       ELSE IF motes[me].dagRoot THEN ret("none", "root")
       ELSE IF parent_id = Nil THEN ret("TypeError", None)
       ELSE walkTimeOffset(motes, me, parent_id[1], <<>>, 0, now,
                           2 * OffsetNumMotes)

OffsetInit ==
    /\ offsetMotes \in OffsetNetworks
    /\ lastOffset = NoOffset

\* propagate takes the txTime of a transmission of mote me
OffsetCompute ==
    /\ ~lastOffset.done
    /\ \E me \in OffsetMoteIds :
       \E r \in {computeTimeOffsetToDagRoot(offsetMotes, me, OffsetAsn)} :
          lastOffset' = [done |-> TRUE, mote |-> me, err |-> r.err,
                         outcome |-> r.outcome, offset |-> r.offset,
                         steps |-> r.steps]
    /\ UNCHANGED <<offsetMotes, offsetOthers>>

\* the next transmission
OffsetNextCall ==
    /\ lastOffset.done
    /\ lastOffset' = NoOffset
    /\ UNCHANGED <<offsetMotes, offsetOthers>>

OffsetNext ==
    \/ OffsetCompute
    \/ OffsetNextCall

(***************************************************************************)
(* RPL: the parents of one mote (rpl.py: action_receiveDIO, _housekeeping) *)
(*                                                                         *)
(* The mote is synchronised and is not the root.  It hears DIOs from       *)
(* RplNumNeighbors neighbours; the rank increase to each neighbour follows *)
(* the ETX of the link at the time of the call.  Neighbours are mote ids   *)
(* (integers), as _calcRankIncrease asserts.                               *)
(***************************************************************************)
rplOthers == <<engineVars, rootVars, tschVars, sixpVars, lowpanVars, cellVars,
               joinVars, legacyVars, txnVars, syncAsn, asnLastSync, lastSync,
               offsetVars>>

RPL_PARENT_SWITCH_THRESHOLD == 768
RPL_MAX_ETX == 4
RPL_MAX_RANK_INCREASE == RPL_MAX_ETX * RPL_MIN_HOP_RANK_INCREASE * 2
RPL_MAX_TOTAL_RANK == 256 * RPL_MIN_HOP_RANK_INCREASE * 2
RPL_PARENT_SET_SIZE == 3

RplNeighbors == 0..(RplNumNeighbors - 1)

\* the ranks the neighbours advertise
RplRanks == {RPL_MIN_HOP_RANK_INCREASE, 4 * RPL_MIN_HOP_RANK_INCREASE}

\* _calcRankIncrease: None without an ETX, else int((3 * ETX - 2) * 256); the links
\* here have an ETX of 1, 4/3 or 11/3
RplRankIncreases == {<<RPL_MIN_HOP_RANK_INCREASE>>, <<2 * RPL_MIN_HOP_RANK_INCREASE>>,
                     <<9 * RPL_MIN_HOP_RANK_INCREASE>>}

RplSetMin(S) == CHOOSE x \in S : \A y \in S : x <= y

RplMotesOf(list) == {list[k].mote : k \in 1..Len(list)}

\* the potential rank of the mote through each neighbour it has heard a DIO from
potentialRanks(neighborRank, rankIncrease) ==
    [n \in {k \in DOMAIN neighborRank :
                /\ rankIncrease[k] # Nil
                /\ rankIncrease[k][1] <= RplSetMin({RPL_MAX_RANK_INCREASE,
                                                    RPL_MAX_TOTAL_RANK - neighborRank[k]})}
        |-> neighborRank[n] + rankIncrease[n][1]]

\* sorted(potentialRanks.iteritems(), key=rank): a stable sort of the items in the
\* order of the dictionary, which for small integer keys is the order of the keys
RECURSIVE sorted_potentialRanks(_)
sorted_potentialRanks(ranks) ==
    IF DOMAIN ranks = {} THEN <<>>
    ELSE LET n == CHOOSE k \in DOMAIN ranks :
                      \A o \in DOMAIN ranks :
                          ranks[k] < ranks[o] \/ (ranks[k] = ranks[o] /\ k <= o)
         IN  <<[mote |-> n, rank |-> ranks[n]]>> \o sorted_potentialRanks(DropKeys(ranks, {n}))

\* list.pop(i) followed by list.insert(j, item), on positions from 1
RplMoveTo(list, i, j) ==
    LET without == RemoveAt(list, i)
    IN  SubSeq(without, 1, j - 1) \o <<list[i]>> \o SubSeq(without, j, Len(without))

\* the loop over i of _housekeeping: a member of the parent set moves in front of
\* the first mote before it that is not in the parent set and whose rank is lower
\* by less than the threshold
RECURSIVE keepParentsFirst(_, _, _)
keepParentsFirst(list, parentSet, i) ==
    IF i > Len(list) THEN list
    ELSE LET js == {j \in 1..(i - 1) :
                        /\ list[j].mote \notin parentSet
                        /\ list[i].rank - list[j].rank < RPL_PARENT_SWITCH_THRESHOLD}
         IN  IF list[i].mote \in parentSet /\ js # {}
             THEN keepParentsFirst(RplMoveTo(list, i, RplSetMin(js)), parentSet, i + 1)
             ELSE keepParentsFirst(list, parentSet, i + 1)

\* the preferred parent and rank _housekeeping picks from the list
pickPreferredParent(list, preferredParent) ==
    LET first == SubSeq(list, 1, RplSetMin({RPL_PARENT_SET_SIZE, Len(list)}))
        kept  == {k \in 1..Len(first) :
                      /\ first[k].mote = preferredParent[1]
                      /\ first[k].rank - list[1].rank < RPL_PARENT_SWITCH_THRESHOLD}
    IN  IF preferredParent # Nil /\ list[1].mote # preferredParent[1] /\ kept # {}
        THEN first[RplSetMin(kept)]
        ELSE list[1]

\* Rpl._housekeeping: the state it leaves, its choice and the exception it raises.
\* The log of a change of preferred parent reads newPreferredParent.id of an
\* integer, so a change raises AttributeError before anything is stored.
housekeeping(st, rankIncrease) ==
    LET ranks == potentialRanks(st.neighborRank, rankIncrease)
        list  == keepParentsFirst(sorted_potentialRanks(ranks),
                                  {st.parentSet[k] : k \in 1..Len(st.parentSet)}, 2)
    IN  IF list = <<>>
        THEN [state |-> st, potential |-> ranks, chosen |-> Nil, err |-> "none"]
        ELSE LET new       == pickPreferredParent(list, st.preferredParent)
                 Closer(e) == st.neighborRank[e.mote] < new.rank
                 closer    == SelectSeq(list, Closer)
                 parents   == SubSeq(closer, 1, RplSetMin({RPL_PARENT_SET_SIZE, Len(closer)}))
             IN  IF st.preferredParent # Nil /\ st.preferredParent # <<new.mote>>
                 THEN [state |-> st, potential |-> ranks, chosen |-> <<new.mote>>,
                       err |-> "AttributeError"]
                 ELSE [state     |-> [neighborRank    |-> st.neighborRank,
                                      parentSet       |-> [k \in 1..Len(parents) |->
                                                              parents[k].mote],
                                      preferredParent |-> <<new.mote>>,
                                      rank            |-> <<new.rank>>],
                       potential |-> ranks,
                       chosen    |-> <<new.mote>>,
                       err       |-> IF new.mote \in RplMotesOf(parents)
                                     THEN "none" ELSE "AssertionError"]

\* Rpl.action_receiveDIO of a synchronised mote that is not the root
RplReceiveDIO ==
    /\ lastRpl.err = "none"
    /\ \E src \in RplNeighbors, rank \in RplRanks,
          rankIncrease \in [RplNeighbors -> RplRankIncreases] :
          /\ ~(rankIncrease[src] # Nil /\ rankIncrease[src][1] > RPL_MAX_RANK_INCREASE)
          /\ \E st \in {[rplState EXCEPT !.neighborRank =
                             (src :> rank) @@ rplState.neighborRank]} :
             \E res \in {housekeeping(st, rankIncrease)} :
                /\ rplState' = res.state
                /\ lastRpl' = [done |-> TRUE, before |-> st, potential |-> res.potential,
                               chosen |-> res.chosen, err |-> res.err]
    /\ UNCHANGED <<rplOthers>>

\* a DIO over a link too poor to be used: nothing is updated
RplIgnoreDIO ==
    /\ lastRpl.err = "none"
    /\ \E rankIncrease \in RplRankIncreases :
          /\ rankIncrease # Nil
          /\ rankIncrease[1] > RPL_MAX_RANK_INCREASE
    /\ UNCHANGED <<rplState, lastRpl, rplOthers>>

RplNext ==
    \/ RplReceiveDIO
    \/ RplIgnoreDIO

(***************************************************************************)
(* Specifications                                                          *)
(***************************************************************************)

\* the engine running client tasks, propagate and the end of the simulation
InitEngine == EngineInit /\ RootIdle /\ TschIdle /\ SixpIdle /\ LowpanIdle /\ CellIdle
    /\ JoinIdle /\ LegacyIdle /\ TxnIdle /\ SyncIdle

SpecEngine == InitEngine /\ [][EngineNext]_vars

\* the DAG root receiving DAOs and sending packets downward
InitRoot == EngineIdle /\ RootIdle /\ TschIdle /\ SixpIdle /\ LowpanIdle /\ CellIdle
    /\ JoinIdle /\ LegacyIdle /\ TxnIdle /\ SyncIdle

SpecRoot == InitRoot /\ [][RootNext]_vars

\* TSCH slots: active cells, enqueues of the upper layers, propagate
InitTsch == EngineIdle /\ RootIdle /\ TschInit /\ SixpIdle /\ LowpanIdle /\ CellIdle
    /\ JoinIdle /\ LegacyIdle /\ TxnIdle /\ SyncIdle

SpecTsch == InitTsch /\ [][TschNext]_vars

\* the 6P layers of the motes creating and ending transactions
InitSixp == EngineIdle /\ RootIdle /\ TschIdle /\ SixpInit /\ LowpanIdle /\ CellIdle
    /\ JoinIdle /\ LegacyIdle /\ TxnIdle /\ SyncIdle

SpecSixp == InitSixp /\ [][SixpNext]_vars

\* 6LoWPAN: datagrams sent towards the root over a line of motes
InitLowpan ==
    EngineIdle /\ RootIdle /\ TschIdle /\ SixpIdle /\ LowpanInit /\ CellIdle
    /\ JoinIdle /\ LegacyIdle /\ TxnIdle /\ SyncIdle

SpecLowpan == InitLowpan /\ [][LowpanNext]_vars

\* one mote's schedule, cell statistics and choice of the frame to send
InitCell ==
    EngineIdle /\ RootIdle /\ TschIdle /\ SixpIdle /\ LowpanIdle /\ CellInit
    /\ JoinIdle /\ LegacyIdle /\ TxnIdle /\ SyncIdle

SpecCell == InitCell /\ [][CellNext]_vars

\* one mote's backoff state over the slots of a fixed schedule
InitBackoff ==
    EngineIdle /\ RootIdle /\ TschIdle /\ SixpIdle /\ LowpanIdle /\ BackoffInit
    /\ JoinIdle /\ LegacyIdle /\ TxnIdle /\ SyncIdle

SpecBackoff == InitBackoff /\ [][BackoffNext]_vars

\* one mote synchronising on an EB and running the join process
InitJoin ==
    EngineIdle /\ RootIdle /\ TschIdle /\ SixpIdle /\ LowpanIdle /\ CellIdle
    /\ JoinInit /\ LegacyIdle /\ TxnIdle /\ SyncIdle

SpecJoin == InitJoin /\ [][JoinNext]_vars

\* the legacy mote sending the packets of its application to its parent
InitLegacy ==
    EngineIdle /\ RootIdle /\ TschIdle /\ SixpIdle /\ LowpanIdle /\ CellIdle
    /\ JoinIdle /\ LegacyInit /\ TxnIdle /\ SyncIdle

SpecLegacy == InitLegacy /\ [][LegacyNext]_vars

\* 6P exchanges between a mote and its parent
InitTxn ==
    EngineIdle /\ RootIdle /\ TschIdle /\ SixpIdle /\ LowpanIdle /\ CellIdle
    /\ JoinIdle /\ LegacyIdle /\ TxnInit /\ SyncIdle

SpecTxn == InitTxn /\ [][TxnNext]_vars

\* 6P exchanges between a mote and its parent after an earlier transaction
InitTxnLater ==
    EngineIdle /\ RootIdle /\ TschIdle /\ SixpIdle /\ LowpanIdle /\ CellIdle
    /\ JoinIdle /\ LegacyIdle /\ TxnLaterInit /\ SyncIdle

SpecTxnLater == InitTxnLater /\ [][TxnNext]_vars

\* a pledge whose join requests are never answered, slot by slot
InitGiveUp ==
    EngineIdle /\ RootIdle /\ TschIdle /\ SixpIdle /\ LowpanIdle /\ GiveUpInit
    /\ LegacyIdle /\ TxnIdle /\ SyncIdle

SpecGiveUp == InitGiveUp /\ [][GiveUpNext]_vars

\* a mote whose RPL layer enqueues DAOs in any slot
InitDao ==
    EngineIdle /\ RootIdle /\ TschIdle /\ SixpIdle /\ LowpanIdle /\ BackoffInit
    /\ JoinIdle /\ LegacyIdle /\ TxnIdle /\ SyncIdle

SpecDao == InitDao /\ [][DaoNext]_vars

\* TSCH slots with a mote that is listening for EBs
InitListen == EngineIdle /\ RootIdle /\ TschListenInit /\ SixpIdle /\ LowpanIdle /\ CellIdle
    /\ JoinIdle /\ LegacyIdle /\ TxnIdle /\ SyncIdle

SpecListen == InitListen /\ [][TschListenNext]_vars

\* the time correction of a joined mote
InitSync ==
    EngineIdle /\ RootIdle /\ TschIdle /\ SixpIdle /\ LowpanIdle /\ SyncInit
    /\ JoinIdle /\ LegacyIdle /\ TxnIdle

SpecSync == InitSync /\ [][SyncNext]_vars

\* the clock offsets of the senders of a network
InitOffset ==
    EngineIdle /\ RootIdle /\ TschIdle /\ SixpIdle /\ LowpanIdle /\ CellIdle
    /\ JoinIdle /\ LegacyIdle /\ TxnIdle
    /\ syncAsn = 0 /\ asnLastSync = Nil /\ lastSync = NoSync /\ OffsetInit /\ RplIdle

SpecOffset == InitOffset /\ [][OffsetNext]_vars

\* the parents of a mote that hears DIOs
InitRpl ==
    EngineIdle /\ RootIdle /\ TschIdle /\ SixpIdle /\ LowpanIdle /\ CellIdle
    /\ JoinIdle /\ LegacyIdle /\ TxnIdle
    /\ syncAsn = 0 /\ asnLastSync = Nil /\ lastSync = NoSync /\ OffsetIdle /\ RplIdle

SpecRpl == InitRpl /\ [][RplNext]_vars

(***************************************************************************)
(* C2: when no source route to the destination can be built from the      *)
(* DAO-derived table, the root's sendPacket drops the packet with reason   *)
(* NO_ROUTE and returns normally: no exception reaches the engine.         *)
(* This is the claim as stated; the code lets NoSourceRouteError escape.   *)
(***************************************************************************)
C2_NoRouteIsDropped ==
    lastSend.route \in {"NoSourceRouteError", "diverges"}
        => lastSend.outcome = "dropped_NO_ROUTE" /\ rootPc = "running"

(***************************************************************************)
(* C6: the engine's current ASN never decreases during run(); no event is  *)
(* dispatched whose ASN is lower than the current ASN; scheduleAtAsn       *)
(* rejects, by an assertion failure, exactly the requests whose ASN is not *)
(* strictly greater than the current ASN.                                  *)
(***************************************************************************)
C6_Step ==
    /\ asn' >= asn
    /\ dispatchedIds' # dispatchedIds =>
           /\ lastDispatch'.ev.asn >= asn
           /\ lastDispatch'.asnBefore = asn
    /\ nTasks' # nTasks =>
           /\ lastCall'.op = "scheduleAtAsn"
           /\ lastCall'.curAsn = asn
           /\ (lastCall'.result = "AssertionError") <=> (lastCall'.asn <= asn)
           /\ lastCall'.result = "AssertionError" => events' = lastCall'.before
    /\ \A i \in 1..Len(events') : events'[i].asn >= asn'

C6_AsnNeverDecreases == [][C6_Step]_vars

\* a request at the current ASN, made while the run is under way, was rejected
C6_Witness ==
    /\ lastCall.op = "scheduleAtAsn"
    /\ lastCall.result = "AssertionError"
    /\ lastCall.curAsn > 0
    /\ lastCall.asn = lastCall.curAsn
    /\ dispatchedIds # {}

(***************************************************************************)
(* C7: events are dispatched in ascending (ASN, intra-slot order,          *)
(* insertion order): the queue is sorted by that key and the event last    *)
(* dispatched is not after any event still queued; so no stack task of an  *)
(* ASN is left when that ASN's propagate has run, and no propagate of an   *)
(* ASN is left when an end-of-slot task of that ASN has run.               *)
(***************************************************************************)
C7_DispatchOrder ==
    /\ \A i, j \in 1..Len(events) : i < j => EventLeq(events[i], events[j])
    /\ \A i \in 1..Len(events) : EventLeq(lastDispatch.ev, events[i])
    /\ lastDispatch.ev.cb = "propagate" =>
           \A i \in 1..Len(events) :
               ~(/\ events[i].asn = lastDispatch.ev.asn
                 /\ events[i].priority = INTRASLOTORDER_STACKTASKS)
    /\ lastDispatch.ev.priority = INTRASLOTORDER_ADMINTASKS =>
           \A i \in 1..Len(events) :
               ~(/\ events[i].asn = lastDispatch.ev.asn
                 /\ events[i].cb = "propagate")

\* an end-of-slot task ran at an ASN where a stack task and propagate ran too,
\* and two events of one ASN and one order wait in insertion order
C7_Witness ==
    /\ lastDispatch.ev.priority = INTRASLOTORDER_ADMINTASKS
    /\ \E a, b \in dispatchedIds :
           /\ a # b
           /\ a # lastDispatch.ev.id
           /\ b # lastDispatch.ev.id
    /\ \E i, j \in 1..Len(events) :
           /\ i < j
           /\ events[i].asn = events[j].asn
           /\ events[i].priority = events[j].priority

(***************************************************************************)
(* C8: run() dispatches an event only while the queue is non-empty and the *)
(* engine has not been stopped: once the end-of-simulation event has fired *)
(* no further callback is dispatched, and run() does not end in an error   *)
(* of its own (IndexError on the emptied queue).                           *)
(***************************************************************************)
C8_NoDispatchAfterStop ==
    /\ lastDispatch.goOnBefore
    /\ engineErr # "IndexError"

(***************************************************************************)
(* C9: after scheduleAtAsn with a unique tag the queue holds exactly one   *)
(* event with that tag later than the current ASN, the future events that  *)
(* carried the tag before are removed and never run, and the events with   *)
(* the tag at the current ASN are all still queued; removeEvent of a tag   *)
(* with no future event leaves the queue as it was.                        *)
(***************************************************************************)
TaggedFuture(evs, uniqueTag, curAsn) ==
    {i \in 1..Len(evs) : evs[i].tag = uniqueTag /\ evs[i].asn > curAsn}

TaggedNow(evs, uniqueTag, curAsn) ==
    {i \in 1..Len(evs) : evs[i].tag = uniqueTag /\ evs[i].asn = curAsn}

C9_UniqueTag ==
    /\ removedIds \cap dispatchedIds = {}
    /\ (lastCall.op = "scheduleAtAsn" /\ lastCall.result = "ok"
            /\ lastCall.tag # None) =>
           /\ Cardinality(TaggedFuture(lastCall.after, lastCall.tag,
                                       lastCall.curAsn)) = 1
           /\ \A i \in TaggedFuture(lastCall.before, lastCall.tag,
                                    lastCall.curAsn) :
                  lastCall.before[i].id \in removedIds
           /\ \A i \in TaggedNow(lastCall.before, lastCall.tag,
                                 lastCall.curAsn) :
                  lastCall.before[i].id \in IdsOf(lastCall.after)
    /\ (lastCall.op = "removeEvent"
            /\ TaggedFuture(lastCall.before, lastCall.tag,
                            lastCall.curAsn) = {}) =>
           lastCall.after = lastCall.before

\* a tag was scheduled again while an event with it waited at the current ASN,
\* and that event has run since
C9_Witness ==
    /\ lastCall.op = "scheduleAtAsn"
    /\ lastCall.result = "ok"
    /\ lastCall.tag # None
    /\ \E i \in TaggedNow(lastCall.before, lastCall.tag, lastCall.curAsn) :
           lastCall.before[i].id \in dispatchedIds

(***************************************************************************)
(* Claims on TSCH and propagation                                          *)
(***************************************************************************)

\* C1: a unicast DATA frame that enqueue accepted and that is never
\* acknowledged is dropped with reason MAX_RETRIES after exactly
\* 1 + TSCH_MAXTXRETRIES tsch.txdone events with isACKed=false.
C1_RetransmissionCount ==
    \A d \in lastProp.drops :
        (d.reason = "MAX_RETRIES" /\ d.frame.type = "DATA")
            => d.frame.txdone_noack = 1 + TSCH_MAXTXRETRIES

\* C3: no TX queue holds more than TSCH_QUEUE_SIZE frames, and an enqueue on a
\* queue that holds TSCH_QUEUE_SIZE frames returns False, reports the drop
\* TXQUEUE_FULL and leaves the queue as it was, whatever the frame type.
C3_QueueBound ==
    /\ \A m \in Motes : Len(txQueue[m]) <= TSCH_QUEUE_SIZE
    /\ (lastEnqueue.type # None /\ lastEnqueue.wasFull)
           => /\ lastEnqueue.goOn = FALSE
              /\ lastEnqueue.reason = "TXQUEUE_FULL"
              /\ lastEnqueue.unchanged

\* an enqueue of a SIXP frame was refused on a full queue
C3_Witness ==
    /\ lastEnqueue.type = "SIXP"
    /\ lastEnqueue.wasFull
    /\ lastEnqueue.reason = "TXQUEUE_FULL"
    /\ Len(txQueue[lastEnqueue.mote]) = TSCH_QUEUE_SIZE

\* C4: in a slot every transmission is acknowledged by at most one listener,
\* a listener acknowledges only a unicast frame whose dstMac is its own
\* address, and the run aborts exactly when a transmission counts more than
\* one ACK.
C4_AtMostOneAck ==
    /\ \A t \in Motes :
           /\ Cardinality(lastProp.acks[t]) <= 1
           /\ \A l \in lastProp.acks[t] : lastProp.tx[t] = <<l>>
    /\ tschErr = "SystemError"
           <=> \E t \in Motes : Cardinality(lastProp.acks[t]) > 1

\* two motes listened in the slot of a unicast frame and one of them, its
\* destination, acknowledged it
C4_Witness ==
    \E t \in Motes, l1 \in Motes, l2 \in Motes :
        /\ l1 # l2
        /\ {l1, l2} \subseteq lastProp.done
        /\ lastProp.tx[l1] = Nil
        /\ lastProp.tx[l2] = Nil
        /\ lastProp.tx[t] = <<l1>>
        /\ lastProp.acks[t] = {l1}

C10_OneTransactionPerPair ==
    /\ \A m \in Motes : \A i \in Motes, r \in Motes :
           Cardinality({k \in DOMAIN transaction_table[m] :
                           /\ transaction_table[m][k].initiator = i
                           /\ transaction_table[m][k].responder = r}) <= 1
    /\ lastAdd.existed
           => /\ lastAdd.raised
              /\ lastAdd.unchanged

\* a second transaction for a pair was refused on a mote; the table still
\* holds the first, a CLEAR transaction
C10_Witness ==
    /\ lastAdd.existed
    /\ lastAdd.raised
    /\ lastAdd.key[1] \in DOMAIN transaction_table[lastAdd.mote]
    /\ transaction_table[lastAdd.mote][lastAdd.key[1]].request.code = SIXP_CMD_CLEAR
    /\ \E m \in Motes : Cardinality(DOMAIN transaction_table[m]) = 2

\* C11: the SeqNum a mote keeps for a peer starts at 0, stays within 0..255,
\* is incremented by exactly one when a transaction with the peer completes,
\* and wraps from 0xFF to 1, never to 0.
C11_Step ==
    /\ \A m \in Motes : \A p \in DOMAIN seqnum_table'[m] :
           /\ seqnum_table'[m][p] \in 0..255
           /\ p \notin DOMAIN seqnum_table[m] => seqnum_table'[m][p] = 0
    /\ lastComplete' # lastComplete
           => /\ lastComplete'.after = IF lastComplete'.before = 255 THEN 1
                                       ELSE lastComplete'.before + 1
              /\ seqnum_table'[lastComplete'.mote][lastComplete'.peerMac[1]]
                     = lastComplete'.after
              /\ seqnum_table[lastComplete'.mote][lastComplete'.peerMac[1]]
                     = lastComplete'.before

C11_SeqNum == [][C11_Step]_vars

\* a transaction completed while the SeqNum of its peer was 0xFF
C11_Witness ==
    /\ lastComplete.peerMac # Nil
    /\ lastComplete.before = 255
    /\ seqnum_table[lastComplete.mote][lastComplete.peerMac[1]] = 1

\* C12: when send_request is called while a transaction with the same peer is
\* open, the callback the caller supplied is invoked with the failure event
\* as callback(event, packet), the request is not enqueued and the run goes
\* on.  This is the claim as stated; the code passes (packet, event).
C12_FailureCallback ==
    lastCallback.failed
        => /\ lastCallback.args = <<"SIXP_CALLBACK_EVENT_FAILURE", "packet">>
           /\ ~lastCallback.enqueued
           /\ sixpErr = "none"


\* the key of the datagram the frame last received belongs to
lastLowpanKey == <<lastLowpan.rx[1].mac.srcMac, lastLowpan.rx[1].net.datagram_tag[1]>>

(***************************************************************************)
(* C13: a packet that Sixlowpan.forward sends on carries a hop_limit       *)
(* exactly one less than the one it was received with, and at least 1; a   *)
(* packet received for forwarding with hop_limit 1 is not forwarded: it is *)
(* dropped with reason TIME_EXCEEDED and nothing is enqueued.              *)
(***************************************************************************)
C13_HopLimit ==
    (lastLowpan.fwdIn # Nil /\ lastLowpan.fwdIn[1].net.hop_limit # Nil) =>
        LET hop_limit == lastLowpan.fwdIn[1].net.hop_limit[1]
            out == lastLowpan.out
        IN IF hop_limit = 1
           THEN lastLowpan.drop = <<"TIME_EXCEEDED">> /\ out = <<>>
           ELSE /\ lastLowpan.drop = Nil
                /\ out # <<>>
                /\ hop_limit - 1 >= 1
                /\ out[1].net.hop_limit = <<hop_limit - 1>>
                /\ \A i \in DOMAIN out :
                      out[i].net.hop_limit \in {Nil, <<hop_limit - 1>>}

\* a forwarder has dropped a packet that reached it with hop_limit 1
C13_Witness ==
    /\ lastLowpan.fwdIn # Nil
    /\ lastLowpan.fwdIn[1].net.hop_limit = <<1>>
    /\ lastLowpan.drop = <<"TIME_EXCEEDED">>

(***************************************************************************)
(* C14: reassembling all the fragments that fragmentPacket made of a       *)
(* packet yields a packet with the type, the app payload and the net       *)
(* header of the original, its packet_length being the datagram size; the  *)
(* first fragment carries the net header, the last fragment the app        *)
(* payload and the original packet type.                                   *)
(***************************************************************************)
C14_RoundTrip ==
    /\ (lastLowpan.reassembled # Nil /\ lastLowpanKey \in DOMAIN sentDatagrams) =>
          LET packet == lastLowpan.reassembled[1]
              original == sentDatagrams[lastLowpanKey]
          IN /\ packet.type = original.type
             /\ packet.app = original.app
             /\ packet.net = original.net
             /\ packet.net.packet_length = lastLowpan.rx[1].net.datagram_size[1]
    /\ \A key \in DOMAIN sentDatagrams :
          LET original == sentDatagrams[key]
              frags == fragmentPacket(original, key[2])
          IN /\ Len(frags) >= 2
             /\ frags[1].net.srcIp = original.net.srcIp
             /\ frags[1].net.dstIp = original.net.dstIp
             /\ frags[1].net.hop_limit = original.net.hop_limit
             /\ frags[Len(frags)].app = original.app
             /\ frags[Len(frags)].net.original_packet_type = <<original.type>>

\* a datagram of three fragments has been reassembled by the neighbour of the
\* mote that fragmented it
C14_Witness ==
    /\ lastLowpan.reassembled # Nil
    /\ lastLowpanKey \in DOMAIN sentDatagrams
    /\ lastLowpan.rx[1].net.datagram_size = <<2 * tsch_max_payload_len + 1>>

(***************************************************************************)
(* C15: a mote that is not the DAG root never holds more than              *)
(* sixlowpan_reassembly_buffers_num reassembly buffers; when a fragment    *)
(* needs a new buffer and the mote holds that many, the fragment is        *)
(* dropped with reason REASSEMBLY_BUFFER_FULL and no buffer is created.    *)
(* The DAG root never drops a fragment for that reason.                    *)
(***************************************************************************)
C15_ReassemblyBuffers ==
    /\ \A m \in LowpanMotes \ {DagRoot} :
          Cardinality(DOMAIN reassembly_buffers[m]) <= sixlowpan_reassembly_buffers_num
    /\ lastLowpan.bufFull =>
          /\ lastLowpan.drop = <<"REASSEMBLY_BUFFER_FULL">>
          /\ lastLowpanKey \notin DOMAIN reassembly_buffers[lastLowpan.mote]
          /\ lastLowpan.out = <<>>
    /\ lastLowpan.drop = <<"REASSEMBLY_BUFFER_FULL">> =>
          lastLowpan.mote # DagRoot /\ lastLowpan.bufFull

\* a fragment of a new datagram has reached a mote whose only buffer is taken
C15_Witness ==
    /\ lastLowpan.bufFull
    /\ lastLowpan.drop = <<"REASSEMBLY_BUFFER_FULL">>
    /\ Cardinality(DOMAIN reassembly_buffers[lastLowpan.mote]) =
          sixlowpan_reassembly_buffers_num

\* the DAG root holds more buffers than the other motes may
C15_RootExempt ==
    Cardinality(DOMAIN reassembly_buffers[DagRoot]) > sixlowpan_reassembly_buffers_num

(***************************************************************************)
(* C16: with fragment forwarding, the VRB table of a mote that is not the  *)
(* DAG root never holds more than fragmentation_ff_vrb_table_size entries; *)
(* when a first fragment arrives and the table holds that many, the        *)
(* fragment is dropped with reason VRB_TABLE_FULL, its content is emptied  *)
(* and no entry is created.                                                *)
(***************************************************************************)
C16_VrbTable ==
    /\ \A m \in LowpanMotes \ {DagRoot} :
          Cardinality(DOMAIN vrb_table[m]) <= fragmentation_ff_vrb_table_size
    /\ lastLowpan.vrbFull =>
          /\ lastLowpan.drop = <<"VRB_TABLE_FULL">>
          /\ lastLowpan.dropped = <<EmptyDict>>
          /\ lastLowpanKey \notin DOMAIN vrb_table[lastLowpan.mote]
          /\ lastLowpan.out = <<>>
    /\ lastLowpan.drop = <<"VRB_TABLE_FULL">> =>
          lastLowpan.mote # DagRoot /\ lastLowpan.vrbFull

\* a first fragment has reached a forwarder whose VRB table is full
C16_Witness ==
    /\ lastLowpan.vrbFull
    /\ lastLowpan.drop = <<"VRB_TABLE_FULL">>
    /\ lastLowpan.rx[1].net.datagram_offset = <<0>>
    /\ Cardinality(DOMAIN vrb_table[lastLowpan.mote]) = fragmentation_ff_vrb_table_size


C18_AckedAtMostSent ==
    /\ \A so \in DOMAIN cellSchedule :
          /\ cellSchedule[so].numTxAck <= cellSchedule[so].numTx
          /\ cellSchedule[so].numTx < NUMTX_HALVING
    /\ lastCell.op \in {"TX", "txDone"} /\ lastCell.pkt[1].dstMac = BROADCAST_ADDRESS =>
          cellSchedule[lastCell.slot].numTxAck <= lastCell.before[1].numTxAck

\* the counters of a cell whose transmissions were all acknowledged have just
\* been halved
C18_Witness ==
    /\ lastCell.op = "TX"
    /\ lastCell.before[1].numTx = NUMTX_HALVING - 1
    /\ lastCell.before[1].numTxAck = NUMTX_HALVING - 1
    /\ cellSchedule[lastCell.slot].numTx = NUMTX_HALVING \div 2

\* the txDone of a broadcast frame
C18_Broadcast ==
    /\ lastCell.op = "txDone"
    /\ lastCell.pkt[1].dstMac = BROADCAST_ADDRESS

(***************************************************************************)
(* C19: a unicast frame for a neighbour to which the mote has a dedicated  *)
(* TX cell is sent only in a dedicated cell to that neighbour, never in    *)
(* the minimal cell; the frames sent in the minimal cell are broadcast EBs *)
(* and DIOs and unicast frames for neighbours without a dedicated TX cell. *)
(***************************************************************************)
C19_TxCellSelection ==
    cellPktToSend # Nil =>
        LET pkt == cellPktToSend[1]
            cell == cellSchedule[cellSlot]
            dedicatedTx == \E so \in DOMAIN cellSchedule :
                              /\ cellSchedule[so].neighbor = <<pkt.dstMac>>
                              /\ cellSchedule[so].cellOptions = {CELLOPTION_TX}
        IN /\ CELLOPTION_TX \in cell.cellOptions
           /\ (pkt.dstMac # BROADCAST_ADDRESS /\ dedicatedTx) =>
                 cell.neighbor = <<pkt.dstMac>>
           /\ cell.neighbor = Nil =>
                 \/ pkt.dstMac = BROADCAST_ADDRESS /\ pkt.type \in BeaconTypes
                 \/ pkt.dstMac # BROADCAST_ADDRESS /\ ~dedicatedTx
           /\ cell.neighbor # Nil => cell.neighbor = <<pkt.dstMac>>

\* a frame for the parent waited in the queue during the minimal cell and is
\* now sent in the dedicated TX cell to the parent
C19_Witness ==
    /\ cellPktToSend # Nil
    /\ cellPktToSend[1].dstMac = 0
    /\ cellSchedule[cellSlot].neighbor = <<0>>
    /\ cellSchedule[cellSlot].cellOptions = {CELLOPTION_TX}
    /\ \E so \in DOMAIN cellSchedule : cellSchedule[so].neighbor = Nil
    /\ Len(cellTxQueue) = 2
    /\ cellTxQueue[1].dstMac = 2

\* a unicast frame is sent in the minimal cell
C19_MinimalUnicast ==
    /\ cellPktToSend # Nil
    /\ cellPktToSend[1].dstMac = 2
    /\ cellSchedule[cellSlot].neighbor = Nil


(***************************************************************************)
(* Synchronisation and secure join: C20                                    *)
(***************************************************************************)

\* the lines of the mote's log with one event
JoinEvents(event) == {i \in 1..Len(joinLog) : joinLog[i].event = event}

\* the lines a handler wrote: those after the first logLen lines
JoinWritten(logLen) ==
    [i \in 1..(Len(joinLog) - logLen) |-> joinLog[logLen + i]]

\* C20: on a pledge with secure join enabled, the reception of an EB while
\* the pledge is not synced makes it synced, records the source MAC address
\* of the EB as join_proxy, installs the minimal cell and starts the join
\* process, in that order: no assertion of these steps fails, the handler
\* writes tsch.synced, tsch.add_cell and secjoin.tx in this order, and the
\* join request goes to the join proxy.  In the log of the pledge every
\* secjoin.tx comes after a tsch.synced, and every secjoin.joined comes after
\* a secjoin.tx and after every tsch.synced, at a strictly later ASN than
\* each tsch.synced.
C20_SyncedTxJoined ==
    (secjoin_enabled /\ ~pledge.dagRoot) =>
        /\ pledge.err = "none"
        /\ (lastJoin.op = "receiveEB" /\ ~lastJoin.wasSync) =>
              /\ pledge.isSync
              /\ pledge.join_proxy = lastJoin.srcMac
              /\ 0 \in DOMAIN pledge.schedule
              /\ pledge.retransmission_count = <<0>>
              /\ JoinWritten(lastJoin.logLen) =
                     <<[event |-> "tsch.synced", asn |-> lastJoin.asn],
                       [event |-> "tsch.add_cell", asn |-> lastJoin.asn],
                       [event |-> "secjoin.tx", asn |-> lastJoin.asn]>>
              /\ \A i \in 1..Len(joinQueue) :
                     joinQueue[i].asn = lastJoin.asn =>
                        joinQueue[i].dstMac = lastJoin.srcMac
        /\ \A k \in JoinEvents("secjoin.tx") :
              \E i \in JoinEvents("tsch.synced") : i < k
        /\ \A j \in JoinEvents("secjoin.joined") :
              /\ \E k \in JoinEvents("secjoin.tx") : k < j
              /\ \A i \in JoinEvents("tsch.synced") :
                     i < j /\ joinLog[i].asn < joinLog[j].asn

\* a pledge has joined after it sent its join request more than once
C20_Witness ==
    /\ secjoin_enabled
    /\ ~pledge.dagRoot
    /\ pledge.isJoined
    /\ JoinEvents("secjoin.joined") # {}
    /\ Cardinality(JoinEvents("secjoin.tx")) >= 2

\* a pledge has just synchronised on an EB of mote 1
C20_ReceivedEB ==
    /\ secjoin_enabled
    /\ ~pledge.dagRoot
    /\ lastJoin.op = "receiveEB"
    /\ ~lastJoin.wasSync
    /\ pledge.join_proxy = <<1>>

\* a pledge has joined after it gave up once and synchronised again, one
\* slot after it synchronised for the second time
C20_JoinedAfterResync ==
    /\ secjoin_enabled
    /\ ~pledge.dagRoot
    /\ JoinEvents("tsch.desynced") # {}
    /\ \E i \in JoinEvents("tsch.synced"), j \in JoinEvents("secjoin.joined") :
          joinLog[j].asn = joinLog[i].asn + 1

\* without secure join the pledge is joined in the slot of its
\* synchronisation, and it sends no join request
C20_JoinedAtOnce ==
    /\ ~secjoin_enabled
    /\ ~pledge.dagRoot
    /\ JoinEvents("secjoin.tx") = {}
    /\ \E i \in JoinEvents("tsch.synced"), j \in JoinEvents("secjoin.joined") :
          joinLog[j].asn = joinLog[i].asn



(***************************************************************************)
(* The EB of the DAG root: C21                                             *)
(***************************************************************************)

\* C21: the EB the DAG root creates has a join metric in its app section,
\* under the key join_metric, and its value is 0 (the DAGRank of the rank of
\* the root minus one).
C21_RootJoinMetric ==
    (pledge.dagRoot /\ lastEB # Nil) =>
        /\ "join_metric" \in DOMAIN lastEB[1].app
        /\ lastEB[1].app["join_metric"] = 0

\* no value of the app section of an EB of the DAG root is 0
C21_NoZeroInApp ==
    (pledge.dagRoot /\ lastEB # Nil) =>
        \A k \in DOMAIN lastEB[1].app : lastEB[1].app[k] # 0


(***************************************************************************)
(* The legacy mote: C22                                                    *)
(***************************************************************************)

\* C22: in the legacy mote a unicast packet is transmitted at most
\* 1 + TSCH_MAXTXRETRIES times; when its retriesLeft reaches zero after an
\* unacknowledged transmission it is removed from the TX queue, whatever the
\* number of packets in the queue.
C22_LegacyRetries ==
    /\ \A i \in 1..Len(legacyTxQueue) :
          legacyTxQueue[i].numTx <= 1 + TSCH_MAXTXRETRIES
    /\ (lastLegacy.op = "txDone" /\ lastLegacy.outcome # "ack") =>
          \A i \in 1..Len(legacyTxQueue) :
             legacyTxQueue[i].id = lastLegacy.packet[1].id =>
                legacyTxQueue[i].retriesLeft > 0

\* a packet that is out of retries after an unacknowledged transmission is
\* removed exactly when the queue held TSCH_QUEUE_SIZE packets, and the
\* packets of the queue always have retries left when the queue is full
C22_DroppedWhenFull ==
    (lastLegacy.op = "txDone" /\ lastLegacy.outcome # "ack"
        /\ lastLegacy.packet[1].retriesLeft <= 1) =>
       ((\E i \in 1..Len(legacyTxQueue) :
            legacyTxQueue[i].id = lastLegacy.packet[1].id)
        <=> lastLegacy.queueLen # TSCH_QUEUE_SIZE)

\* a packet was removed for lack of retries from a full queue
C22_ReachedDrop ==
    /\ lastLegacy.op = "txDone"
    /\ lastLegacy.outcome = "none"
    /\ lastLegacy.queueLen = TSCH_QUEUE_SIZE
    /\ Len(legacyTxQueue) = TSCH_QUEUE_SIZE - 1


(***************************************************************************)
(* The backoff state of Tsch: C23, C24, C25, C26                           *)
(***************************************************************************)

\* the step is a txDone of the frame the mote was sending
BackoffTxDone == cellWaitingFor = WAITING_FOR_TX /\ cellWaitingFor' = None

\* the frame of the txDone step is unicast
BackoffUnicast == cellPktToSend[1].dstMac # BROADCAST_ADDRESS

\* the cell of the txDone step is a shared link
BackoffSharedLink == CELLOPTION_SHARED \in cellSchedule[cellSlot].cellOptions

\* the txDone step was called with isACKed = True
BackoffAcked ==
    cellSchedule'[cellSlot].numTxAck = cellSchedule[cellSlot].numTxAck + 1

\* min(exponent + 1, TSCH_MAX_BACKOFF_EXPONENT)
BackoffOneMore ==
    IF cellBackoff.exponent + 1 < TSCH_MAX_BACKOFF_EXPONENT
    THEN cellBackoff.exponent + 1 ELSE TSCH_MAX_BACKOFF_EXPONENT

\* C23: after every unacknowledged unicast transmission on a shared link the
\* backoff exponent is min(previous exponent + 1, TSCH_MAX_BACKOFF_EXPONENT);
\* after every acknowledged unicast transmission on a shared link it is
\* TSCH_MIN_BACKOFF_EXPONENT.
C23_SharedLinkExponent ==
    [][(BackoffTxDone /\ BackoffUnicast /\ BackoffSharedLink) =>
          cellBackoff'.exponent = IF BackoffAcked THEN TSCH_MIN_BACKOFF_EXPONENT
                                  ELSE BackoffOneMore]_vars

\* on a shared link the exponent grows by one, up to the maximum, after an
\* unacknowledged retransmission; it is the minimum after an unacknowledged
\* first transmission and after an acknowledged transmission
C23_FirstFailureResets ==
    [][(BackoffTxDone /\ BackoffUnicast /\ BackoffSharedLink) =>
          cellBackoff'.exponent =
              IF ~BackoffAcked /\ is_retransmission(cellPktToSend[1])
              THEN BackoffOneMore ELSE TSCH_MIN_BACKOFF_EXPONENT]_vars

\* the step is the active cell of the next slot
BackoffActiveCell == cellWaitingFor = None /\ cellSlot' # cellSlot

\* the frame of the TX queue _tsch_action_active_cell selects in the cell of
\* the next slot, Nil when it finds none
BackoffSelected ==
    LET cell == cellSchedule[cellSlot']
        i == IF cell.neighbor = Nil
             THEN FirstIndex({j \in 1..Len(cellTxQueue) :
                      /\ getTxCells(cellSchedule, <<cellTxQueue[j].dstMac>>) = {}
                      /\ getTxRxSharedCells(cellSchedule,
                                            <<cellTxQueue[j].dstMac>>) = {}})
             ELSE FirstIndex({j \in 1..Len(cellTxQueue) :
                      <<cellTxQueue[j].dstMac>> = cell.neighbor})
    IN  IF i = 0 THEN Nil ELSE <<cellTxQueue[i]>>

\* the next slot has a shared cell, the frame selected for it is a
\* retransmission and the backoff delay is not over
BackoffWaits ==
    /\ BackoffActiveCell
    /\ cellSlot' \in DOMAIN cellSchedule
    /\ CELLOPTION_SHARED \in cellSchedule[cellSlot'].cellOptions
    /\ BackoffSelected # Nil
    /\ is_retransmission(BackoffSelected[1])
    /\ cellBackoff.remaining > 0

\* C24: in a shared cell, when the frame selected for transmission is a
\* retransmission and the backoff delay is above 0, the mote transmits
\* nothing in that slot: it decrements the delay by exactly one and listens.
C24_BackoffSkipsTx ==
    [][BackoffWaits =>
          /\ cellPktToSend' = Nil
          /\ cellWaitingFor' = WAITING_FOR_RX
          /\ cellBackoff'.remaining = cellBackoff.remaining - 1]_vars

\* the delay is decremented by exactly one, the selected frame is not sent,
\* and the mote either listens or sends an EB or a DIO
C24_BackoffSkipsFrame ==
    [][BackoffWaits =>
          /\ cellBackoff'.remaining = cellBackoff.remaining - 1
          /\ cellBackoff'.exponent = cellBackoff.exponent
          /\ cellTxQueue' = cellTxQueue
          /\ \/ cellPktToSend' = Nil /\ cellWaitingFor' = WAITING_FOR_RX
             \/ /\ cellPktToSend' # Nil
                /\ cellPktToSend'[1].type \in BeaconTypes
                /\ cellWaitingFor' = WAITING_FOR_TX]_vars

\* C25: on a dedicated link an unacknowledged transmission leaves the backoff
\* state as it was, and an acknowledged transmission resets it exactly when
\* the TX queue is empty after the acknowledged frame is removed.
C25_DedicatedLinkReset ==
    [][(BackoffTxDone /\ BackoffUnicast /\ ~BackoffSharedLink) =>
          IF BackoffAcked /\ cellTxQueue' = <<>>
          THEN cellBackoff'.exponent = TSCH_MIN_BACKOFF_EXPONENT
          ELSE cellBackoff' = cellBackoff]_vars

\* a transmission on a dedicated link leaves the backoff state as it was
C25_DedicatedLinkKeeps ==
    [][(BackoffTxDone /\ BackoffUnicast /\ ~BackoffSharedLink) =>
          cellBackoff' = cellBackoff]_vars

\* C26: a broadcast frame is never retransmitted, and when its transmission
\* completes the backoff state is reset.
C26_BroadcastResets ==
    [][(BackoffTxDone /\ ~BackoffUnicast) =>
          /\ cellTxQueue' = cellTxQueue
          /\ \A i \in 1..Len(cellTxQueue) : cellTxQueue[i] # cellPktToSend[1]
          /\ cellBackoff'.exponent = TSCH_MIN_BACKOFF_EXPONENT]_vars

\* a broadcast frame is never in the TX queue after its transmission, and its
\* txDone leaves the backoff state as it was
C26_BroadcastKeeps ==
    [][(BackoffTxDone /\ ~BackoffUnicast) =>
          /\ cellTxQueue' = cellTxQueue
          /\ \A i \in 1..Len(cellTxQueue) : cellTxQueue[i] # cellPktToSend[1]
          /\ cellBackoff' = cellBackoff]_vars


(***************************************************************************)
(* 6P exchanges: C27, C28, C29, C30                                        *)
(***************************************************************************)

\* the packet of the slot the step is, its sender and its destination
TxnSent == lastTxn'.packet[1]

\* the layer of mote m is the same after the step, but for its TX queue
TxnLayerKept(m) ==
    /\ txnTable'[m] = txnTable[m]
    /\ txnSeqnum'[m] = txnSeqnum[m]

\* C27: when a responder answers a request with ERR_BUSY because a
\* transaction with the initiator is open, the open transaction stays in the
\* transaction table with its callback and its timeout unchanged, and neither
\* sending the ERR_BUSY response nor its link-layer ACK completes it or
\* changes the SeqNum the responder has for the peer.
C27_BusyLeavesOpen ==
    [][lastTxn'.op = "deliver" =>
          /\ lastTxn'.outcome \in {"busy", "busy_seqnum"} =>
                TxnLayerKept(TxnSent.dstMac)
          /\ (/\ TxnSent.msgType = SIXP_MSG_TYPE_RESPONSE
              /\ TxnSent.code = SIXP_RC_ERR_BUSY) =>
                TxnLayerKept(TxnSent.srcMac)]_vars

\* the open transaction is unaffected when the request that is answered
\* with ERR_BUSY has another SeqNum than the request of the open transaction
C27_BusyOtherSeqNum ==
    [][lastTxn'.op = "deliver" =>
          /\ lastTxn'.outcome = "busy_seqnum" => TxnLayerKept(TxnSent.dstMac)
          /\ (/\ TxnSent.msgType = SIXP_MSG_TYPE_RESPONSE
              /\ TxnSent.code = SIXP_RC_ERR_BUSY
              /\ \A k \in DOMAIN txnTable[TxnSent.srcMac] :
                    txnTable[TxnSent.srcMac][k].request.seqNum # TxnSent.seqNum) =>
                TxnLayerKept(TxnSent.srcMac)]_vars

\* an ERR_BUSY response with the SeqNum of the open transaction was
\* acknowledged and the transaction of the responder is gone
C27_BusyCompleted ==
    /\ lastTxn.op = "deliver"
    /\ lastTxn.packet[1].msgType = SIXP_MSG_TYPE_RESPONSE
    /\ lastTxn.packet[1].code = SIXP_RC_ERR_BUSY
    /\ txnTable[lastTxn.mote] = EmptyDict
    /\ lastTxn.packet[1].dstMac \in DOMAIN txnSeqnum[lastTxn.mote]
    /\ txnSeqnum[lastTxn.mote][lastTxn.packet[1].dstMac] = 1

\* the acknowledged packet is the final message of the transaction its
\* sender has open: the RESPONSE of a 2-step transaction on the responder,
\* the CONFIRMATION of a 3-step transaction on the initiator
TxnFinalMessage ==
    LET m == TxnSent.srcMac
        key == packet_transaction_key(TxnSent)
    IN  /\ key \in DOMAIN txnTable[m]
        /\ txnTable[m][key].request.seqNum = TxnSent.seqNum
        /\ \/ /\ TxnSent.msgType = SIXP_MSG_TYPE_RESPONSE
              /\ txnTable[m][key].type = SIXP_TRANSACTION_TYPE_2_STEP
              /\ ~txnTable[m][key].isInitiator
           \/ /\ TxnSent.msgType = SIXP_MSG_TYPE_CONFIRMATION
              /\ txnTable[m][key].type = SIXP_TRANSACTION_TYPE_3_STEP
              /\ txnTable[m][key].isInitiator

\* C28: a link-layer ACK completes a 6P transaction only at its final
\* message: on the responder of a 2-step transaction when its RESPONSE is
\* acknowledged, on the initiator of a 3-step transaction when its
\* CONFIRMATION is acknowledged; the ACK of a REQUEST or of the RESPONSE of
\* a 3-step transaction leaves the transaction open.
C28_AckCompletesFinal ==
    [][lastTxn'.op = "deliver" =>
          LET m == TxnSent.srcMac
              key == packet_transaction_key(TxnSent)
          IN  IF TxnFinalMessage
              THEN /\ key \notin DOMAIN txnTable'[m]
                   /\ txnSeqnum'[m] = increment_seqnum(txnSeqnum[m], TxnSent.dstMac)
              ELSE TxnLayerKept(m)]_vars

\* the ACK of the CONFIRMATION completed the 3-step transaction of the
\* initiator
C28_Witness ==
    /\ lastTxn.op = "deliver"
    /\ lastTxn.packet[1].msgType = SIXP_MSG_TYPE_CONFIRMATION
    /\ lastTxn.ackCalls # <<>>
    /\ txnTable[lastTxn.mote] = EmptyDict

\* the ACK of the RESPONSE completed the 2-step transaction of the responder
C28_ResponseAcked ==
    /\ lastTxn.op = "deliver"
    /\ lastTxn.packet[1].msgType = SIXP_MSG_TYPE_RESPONSE
    /\ lastTxn.packet[1].code = SIXP_RC_SUCCESS
    /\ lastTxn.ackCalls # <<>>
    /\ txnTable[lastTxn.mote] = EmptyDict

\* the ACK of the RESPONSE of a 3-step transaction left it open
C28_ResponseOf3Step ==
    /\ lastTxn.op = "deliver"
    /\ lastTxn.packet[1].msgType = SIXP_MSG_TYPE_RESPONSE
    /\ \E k \in DOMAIN txnTable[lastTxn.mote] :
          txnTable[lastTxn.mote][k].type = SIXP_TRANSACTION_TYPE_3_STEP

\* C29: while a transaction with an initiator is open on the responder, a
\* request of that initiator that is identical to the request of the open
\* transaction is ignored (no response, no change of state), and a request
\* of that initiator that differs from it is answered with a RESPONSE with
\* return code ERR_BUSY.
C29_DuplicateOrBusy ==
    [][(/\ lastTxn'.op = "deliver"
        /\ TxnSent.msgType = SIXP_MSG_TYPE_REQUEST
        /\ packet_transaction_key(TxnSent) \in DOMAIN txnTable[TxnSent.dstMac]) =>
          LET r == TxnSent.dstMac
              n == Len(txnQueue[r])
          IN  IF TxnSent = txnTable[r][packet_transaction_key(TxnSent)].request
              THEN /\ TxnLayerKept(r)
                   /\ txnQueue'[r] = txnQueue[r]
              ELSE /\ Len(txnQueue'[r]) = n + 1
                   /\ SubSeq(txnQueue'[r], 1, n) = txnQueue[r]
                   /\ txnQueue'[r][n + 1].msgType = SIXP_MSG_TYPE_RESPONSE
                   /\ txnQueue'[r][n + 1].code = SIXP_RC_ERR_BUSY
                   /\ txnQueue'[r][n + 1].srcMac = r
                   /\ txnQueue'[r][n + 1].dstMac = TxnSent.srcMac]_vars

\* a request that differs from the request of the open transaction was
\* received
C29_Witness ==
    /\ lastTxn.op = "deliver"
    /\ lastTxn.outcome \in {"busy", "busy_seqnum"}
    /\ txnTable[lastTxn.packet[1].dstMac] # EmptyDict

\* a request identical to the request of the open transaction was received
C29_Duplicate ==
    /\ lastTxn.op = "deliver"
    /\ lastTxn.outcome = "duplicate"

\* C30: when the timeout of a transaction fires, the transaction is first
\* removed from the transaction table and only then its callback is invoked,
\* with event TIMEOUT and no packet, so that the callback can start a new
\* transaction with the same peer at once; the SeqNum is not incremented.
C30_TimeoutThenCallback ==
    lastTxn.op = "timeout" =>
       /\ \A i \in 1..Len(lastTxn.calls) :
             /\ lastTxn.calls[i].event = SIXP_CALLBACK_EVENT_TIMEOUT
             /\ lastTxn.calls[i].packet = Nil
             /\ ~lastTxn.calls[i].open
       /\ Len(lastTxn.calls) <= 1
       /\ lastTxn.retried =>
             /\ Len(lastTxn.calls) = 1
             /\ lastTxn.key[1] \in DOMAIN txnTable[lastTxn.mote]
             /\ txnTable[lastTxn.mote][lastTxn.key[1]].timeout # Nil
       /\ ~lastTxn.retried => lastTxn.key[1] \notin DOMAIN txnTable[lastTxn.mote]
       /\ txnSeqnum[lastTxn.mote] = lastTxn.seqnum

\* the callback of a timed-out transaction started a new transaction with
\* the same peer
C30_Witness ==
    /\ lastTxn.op = "timeout"
    /\ lastTxn.retried
    /\ lastTxn.calls # <<>>
    /\ txnQueue[lastTxn.mote] # <<>>


(***************************************************************************)
(* SeqNum after CLEAR: C31                                                 *)
(***************************************************************************)

\* the step is the slot in which the RESPONSE of a CLEAR transaction is
\* received by the initiator, which completes the transaction, and
\* acknowledged to the responder, which completes it too
TxnClearCompleted ==
    /\ lastTxn'.op = "deliver"
    /\ TxnSent.msgType = SIXP_MSG_TYPE_RESPONSE
    /\ \A m \in {TxnSent.srcMac, TxnSent.dstMac} :
          LET key == packet_transaction_key(TxnSent)
          IN  /\ key \in DOMAIN txnTable[m]
              /\ txnTable[m][key].request.code = SIXP_CMD_CLEAR
              /\ txnTable[m][key].request.seqNum = TxnSent.seqNum
              /\ key \notin DOMAIN txnTable'[m]

\* C31: after a CLEAR transaction has completed on both peers, the SeqNum
\* the initiator holds for the responder equals the SeqNum the responder
\* holds for the initiator.
C31_ClearSeqNumsAgree ==
    [][TxnClearCompleted =>
          txnSeqnum'[TxnSent.dstMac][TxnSent.srcMac]
              = txnSeqnum'[TxnSent.srcMac][TxnSent.dstMac]]_vars

\* after a CLEAR transaction has completed on both peers the responder holds
\* SeqNum 1 for the initiator (0 after the reset, incremented at completion)
\* and the initiator the SeqNum of its request incremented
C31_ClearIncrementsBoth ==
    [][TxnClearCompleted =>
          /\ txnSeqnum'[TxnSent.srcMac][TxnSent.dstMac] = 1
          /\ txnSeqnum'[TxnSent.dstMac] =
                increment_seqnum(txnSeqnum[TxnSent.dstMac], TxnSent.srcMac)
          /\ txnSeqnum[TxnSent.dstMac][TxnSent.srcMac] = TxnSent.seqNum]_vars


(***************************************************************************)
(* The retransmissions of the join request: C32                            *)
(***************************************************************************)

\* the lines of the log between the last tsch.synced before line d and line d
JoinSyncPeriod(d) ==
    LET synced == {i \in 1..(d - 1) : joinLog[i].event = "tsch.synced"}
        s == IF synced = {} THEN 0
             ELSE CHOOSE i \in synced : \A j \in synced : j <= i
    IN  SubSeq(joinLog, s + 1, d - 1)

\* the secjoin.tx lines of a part of the log
JoinRequestsOf(lines) ==
    LET isTx(l) == l.event = "secjoin.tx"
    IN  SelectSeq(lines, isTx)

\* C32: a pledge that never receives a JOIN_RESPONSE sends its JOIN_REQUEST
\* exactly 1 + MAX_RETRANSMIT times, each retransmission timeout being twice
\* the previous one, and at the timeout that follows the last retransmission
\* it gives up and desynchronises: isSync is false, join_proxy is cleared and
\* the pledge listens for EBs again.
C32_FiveRequestsThenDesync ==
    /\ \A d \in 1..Len(joinLog) :
          joinLog[d].event = "tsch.desynced" =>
             LET tx == JoinRequestsOf(JoinSyncPeriod(d))
                 at(i) == IF i = Len(tx) + 1 THEN joinLog[d].asn ELSE tx[i].asn
             IN  /\ Len(tx) = 1 + MAX_RETRANSMIT
                 /\ at(2) - at(1) \in TimeoutSlots
                 /\ \A i \in 2..Len(tx) :
                       at(i + 1) - at(i) = 2 * (at(i) - at(i - 1))
    /\ Len(JoinRequestsOf(JoinSyncPeriod(Len(joinLog) + 1))) <= 1 + MAX_RETRANSMIT
    /\ (/\ lastJoin.op = "retransmit"
        /\ \E d \in 1..Len(joinLog) : /\ joinLog[d].event = "tsch.desynced"
                                      /\ d > lastJoin.logLen) =>
          /\ ~pledge.isSync
          /\ pledge.join_proxy = Nil
          /\ pledge.retransmission_count = Nil
          /\ pledge.schedule = EmptyDict
          /\ joinTimer = Nil
          /\ pledge.err = "none"

\* the pledge gave up after the timeout of its fourth retransmission
C32_Witness ==
    /\ lastJoin.op = "retransmit"
    /\ ~pledge.isSync
    /\ \E d \in 1..Len(joinLog) : /\ joinLog[d].event = "tsch.desynced"
                                  /\ d > lastJoin.logLen
                                  /\ Len(JoinRequestsOf(JoinSyncPeriod(d))) = 5

\* the pledge synchronised again after it gave up
C32_ListensAgain ==
    /\ \E d \in 1..Len(joinLog) : joinLog[d].event = "tsch.desynced"
    /\ pledge.isSync

(***************************************************************************)
(* C33: when a pledge gives up joining and desynchronises (setIsSync(False)*)
(* deletes the minimal cell) in a slot in which its TSCH layer has already *)
(* started a transmission or a reception, the txDone or rxDone propagate   *)
(* calls later in the same slot completes without error and leaves         *)
(* waitingFor and pktToSend cleared.                                       *)
(* This is the claim as stated; propagate asks the sender for its clock    *)
(* offset first, which asserts that the mote is synchronised, and txDone   *)
(* reads self.schedule[slotOffset], the deleted cell, in its first line.   *)
(***************************************************************************)
\* the join process gave up in the current slot
GaveUpInSlot ==
    /\ lastJoin.op = "retransmit"
    /\ lastJoin.asn = joinAsn
    /\ \E i \in DOMAIN joinLog :
          joinLog[i] = [event |-> "tsch.desynced", asn |-> joinAsn]

\* propagate has served the transmission or the reception of the mote in the
\* current slot
PropagateReachedMote ==
    joinSlotDone = joinAsn /\ lastCell.op \in {"txTime", "txDone", "rxDone"}

C33_DesyncedSlotCompletes ==
    (GaveUpInSlot /\ PropagateReachedMote)
        => /\ cellErr = "none"
           /\ cellWaitingFor = None
           /\ cellPktToSend = Nil

\* what the code does for a reception: rxDone skips its assertions when the
\* mote is not synchronised and clears waitingFor
C33_DesyncedReceptionCompletes ==
    (GaveUpInSlot /\ PropagateReachedMote /\ lastCell.op = "rxDone")
        => /\ cellErr = "none"
           /\ cellWaitingFor = None
           /\ cellPktToSend = Nil

\* a reception that ended in the slot of the desynchronisation
C33_ReceptionAfterDesync ==
    GaveUpInSlot /\ PropagateReachedMote /\ lastCell.op = "rxDone"

\* a transmission that propagate could not end: the mote is not synchronised
\* and its schedule has no cell at the slot offset
C33_TransmissionAfterDesync ==
    /\ GaveUpInSlot
    /\ PropagateReachedMote
    /\ lastCell.op = "txTime"
    /\ ~lastCell.occupied
    /\ cellErr = "AssertionError"
    /\ cellWaitingFor = WAITING_FOR_TX
    /\ cellPktToSend # Nil

(***************************************************************************)
(* C34: the frame a mote is transmitting (pktToSend) is still in its TX    *)
(* queue when txDone runs for it: removing frames from the TX queue by     *)
(* type in the same slot, as RPL does before it enqueues a fresh DAO,      *)
(* never removes the frame in flight, and the removal of the acknowledged  *)
(* or exhausted frame in txDone does not fail.                             *)
(* This is the claim as stated; remove_frame_from_tx_queue does not look   *)
(* at pktToSend.                                                           *)
(***************************************************************************)
\* the mote is sending a unicast frame
DaoInFlight ==
    /\ cellWaitingFor = WAITING_FOR_TX
    /\ cellPktToSend # Nil
    /\ cellPktToSend[1].dstMac # BROADCAST_ADDRESS

\* the frame in flight is one of the frames of the TX queue
DaoInFlightQueued ==
    \E j \in 1..Len(cellTxQueue) : cellTxQueue[j] = cellPktToSend[1]

C34_OnlyReplacedDaoLeaves ==
    (DaoInFlight /\ cellErr = "none" /\ ~DaoInFlightQueued)
        => /\ cellPktToSend[1].type = "DAO"
           /\ lastCell.op = "enqueueDAO"
           /\ lastCell.pkt = cellPktToSend
           /\ \A j \in 1..Len(cellTxQueue) :
                 cellTxQueue[j].type = "DAO" => cellTxQueue[j].obj # cellPktToSend[1].obj

\* txDone of a DAO that was sent before, replaced while in flight
C34_TxDoneRemoveFails ==
    /\ cellErr = "ValueError"
    /\ lastCell.op = "txDone"
    /\ cellPktToSend[1].type = "DAO"
    /\ ~DaoInFlightQueued

(***************************************************************************)
(* C35: propagate completes without an assertion failure in a slot in      *)
(* which motes are transmitting or listening on two or more different      *)
(* channels: a radio that is active on a channel not yet processed does    *)
(* not trip the check that all radios are OFF.                             *)
(* This is the claim as stated; the code makes the check at the end of     *)
(* the pass of every channel.                                              *)
(***************************************************************************)
\* the channels radios are active on
ActiveChannels == {radioChannel[m][1] : m \in {n \in Motes : radioChannel[n] # Nil}}

\* the step is a call of propagate
PropagateStep == tschPc = "stack" /\ tschPc' # "stack"

C35_ChannelsPropagate ==
    [][(PropagateStep /\ Cardinality(ActiveChannels) >= 2)
           => /\ tschErr' = "none"
              /\ \A m \in Motes : /\ radioState'[m] = RADIO_STATE_OFF
                                  /\ radioChannel'[m] = Nil]_vars

\* what the code does: propagate fails exactly when a radio is active on a
\* channel other than the first, and then the radios of the later channels
\* are still on
C35_FirstChannelOnly ==
    [][PropagateStep
           => /\ tschErr' = "AssertionError" <=> ActiveChannels \ {0} # {}
              /\ tschErr' \in {"none", "AssertionError"}
              /\ \A m \in Motes :
                    (radioChannel[m] # Nil /\ radioChannel[m] # <<0>>)
                        => /\ radioState'[m] = radioState[m]
                           /\ radioChannel'[m] = radioChannel[m]]_vars

\* propagate raised in a slot with radios active on two channels
C35_TwoChannelsRaised ==
    /\ tschErr = "AssertionError"
    /\ tschPc = "error"
    /\ \E m \in Motes : radioChannel[m] = <<1>> /\ radioState[m] = RADIO_STATE_RX
    /\ lastProp.done # {}

(***************************************************************************)
(* C36: with fragment forwarding, a forwarding mote that dropped the first *)
(* fragment of a datagram with TIME_EXCEEDED forwards no later fragment of *)
(* that datagram.                                                          *)
(* This is the claim as stated; in the code only the first fragment        *)
(* carries hop_limit, and the VRB table entry that fragRecv creates for it *)
(* stays when forward drops it.                                            *)
(***************************************************************************)
\* the last recvPacket took a later fragment of a datagram whose first
\* fragment the same mote dropped with TIME_EXCEEDED
LaterFragmentOfExceeded ==
    /\ fragmentation = "FragmentForwarding"
    /\ lastLowpan.rx # Nil
    /\ lastLowpan.rx[1].type = "FRAG"
    /\ lastLowpan.rx[1].net.datagram_offset # <<0>>
    /\ <<lastLowpan.mote, lastLowpan.rx[1].mac.srcMac,
         lastLowpan.rx[1].net.datagram_tag[1]>> \in timeExceeded

C36_NoLaterFragmentForwarded ==
    LaterFragmentOfExceeded => lastLowpan.out = <<>>

\* what the code does: a later fragment that finds the VRB table entry of
\* the dropped first fragment is forwarded, without hop_limit, under the
\* outgoing tag of the entry; the others are discarded without a drop
C36_LaterFragmentsFollowVrb ==
    LaterFragmentOfExceeded =>
        /\ lastLowpan.err = "none"
        /\ lastLowpan.drop = Nil
        /\ IF lastLowpan.fwdIn = Nil
           THEN lastLowpan.out = <<>>
           ELSE /\ Len(lastLowpan.out) = 1
                /\ lastLowpan.out[1].type = "FRAG"
                /\ lastLowpan.out[1].net.hop_limit = Nil
                /\ lastLowpan.out[1].net.datagram_offset =
                       lastLowpan.rx[1].net.datagram_offset
                /\ lastLowpan.out[1].mac.srcMac = lastLowpan.mote

\* a later fragment forwarded after the first was dropped
C36_LaterFragmentForwarded ==
    /\ LaterFragmentOfExceeded
    /\ Len(lastLowpan.out) = 1
    /\ lastLowpan.out[1] \in
           {lowpanQueue[lastLowpan.mote][j] : j \in 1..Len(lowpanQueue[lastLowpan.mote])}

(***************************************************************************)
(* C37: whenever a unicast frame sent to the preferred parent is           *)
(* acknowledged, asnLastSync is set to the current ASN, whichever cell     *)
(* (dedicated or shared) carried the frame.                                *)
(* This is the claim as stated; txDone compares the neighbor of the cell   *)
(* with the preferred parent, and the minimal cell has no neighbor.        *)
(***************************************************************************)
\* txDone of an acknowledged frame for the preferred parent
AckedByParent ==
    /\ lastSync.op = "txDone"
    /\ lastSync.isACKed
    /\ <<lastSync.pkt[1].dstMac>> = SyncPreferredParent

C37_AckSetsAsnLastSync ==
    AckedByParent => asnLastSync = <<syncAsn>>

\* what the code does: the acknowledgement corrects the time when the
\* frame went out in a cell whose neighbor is the preferred parent, shared
\* or not; after a frame sent in the minimal cell asnLastSync is as before
C37_AckOnCellOfParentOnly ==
    lastSync.op = "txDone" =>
        asnLastSync = IF /\ lastSync.isACKed
                         /\ lastSync.cell[1].neighbor = SyncPreferredParent
                      THEN <<syncAsn>>
                      ELSE lastSync.before

\* a frame for the preferred parent acknowledged in the minimal cell, a
\* slot after the last time correction
C37_AckedInMinimalCell ==
    /\ AckedByParent
    /\ lastSync.cell[1].neighbor = Nil
    /\ asnLastSync = lastSync.before
    /\ asnLastSync # <<syncAsn>>

\* a frame for the preferred parent acknowledged in a shared cell with it
C37_AckedInSharedCellOfParent ==
    /\ AckedByParent
    /\ CELLOPTION_SHARED \in lastSync.cell[1].cellOptions
    /\ lastSync.cell[1].neighbor = SyncPreferredParent
    /\ lastSync.before # <<syncAsn>>
    /\ asnLastSync = <<syncAsn>>

(***************************************************************************)
(* C38: computeTimeOffsetToDagRoot always terminates; when the chain of    *)
(* preferred parents starting at the mote contains a cycle or a mote that  *)
(* is not synchronised, this is detected and the computation is aborted    *)
(* instead of looping forever or failing.                                  *)
(* This is the claim as stated; the assertions at the head of the method   *)
(* fail for a mote that is not synchronised itself.                        *)
(***************************************************************************)
\* the motes of the chain of mote m: m, its preferred parent or else its
\* join proxy, and the preferred parents from there on
RECURSIVE OffsetChain(_, _)
OffsetChain(m, seen) ==
    LET next == IF offsetMotes[m].preferredParent # Nil
                THEN offsetMotes[m].preferredParent
                ELSE IF seen = {} THEN offsetMotes[m].join_proxy ELSE Nil
    IN IF m \in seen THEN seen
       ELSE IF next = Nil THEN seen \cup {m}
       ELSE OffsetChain(next[1], seen \cup {m})

\* the chain of the mote of the last call does not reach the root, or has a
\* mote that is not synchronised
OffsetChainBroken ==
    LET chain == OffsetChain(lastOffset.mote, {})
    IN \/ DagRoot \notin chain
       \/ \E n \in chain : ~offsetMotes[n].isSync

C38_BrokenChainAborts ==
    (lastOffset.done /\ OffsetChainBroken)
        => /\ lastOffset.err = "none"
           /\ lastOffset.outcome = "aborted"

\* what the code does: every call ends, after at most one pass of the loop
\* for every mote; it raises AssertionError exactly for a mote that is not
\* synchronised and nothing else; for a synchronised mote it gives the sum
\* up to the root when the chain reaches the root and aborts with the sum
\* of the passes made when the chain runs into a cycle
C38_EndsAndDetectsCycles ==
    lastOffset.done =>
        /\ lastOffset.outcome # "running"
        /\ lastOffset.steps <= OffsetNumMotes
        /\ IF ~offsetMotes[lastOffset.mote].isSync
           THEN lastOffset.err = "AssertionError"
           ELSE /\ lastOffset.err = "none"
                /\ lastOffset.outcome =
                       IF DagRoot \in OffsetChain(lastOffset.mote, {})
                       THEN "root" ELSE "aborted"

\* the call for a mote that is not synchronised
C38_DesyncedMoteRaises ==
    /\ lastOffset.done
    /\ ~offsetMotes[lastOffset.mote].isSync
    /\ OffsetChainBroken
    /\ lastOffset.err = "AssertionError"

\* a cycle of preferred parents that the mote is not part of, detected
C38_CycleAborted ==
    /\ lastOffset.done
    /\ lastOffset.outcome = "aborted"
    /\ lastOffset.err = "none"
    /\ lastOffset.steps >= 2
    /\ lastOffset.offset # 0
    /\ offsetMotes[lastOffset.mote].preferredParent = Nil
    /\ DagRoot \notin OffsetChain(lastOffset.mote, {})

(***************************************************************************)
(* C39: computeSourceRoute terminates for every content of the root's      *)
(* DAO-derived parent/child table, including a table in which the recorded *)
(* parents form a cycle that does not pass through the root; a chain that  *)
(* does not reach the root yields NoSourceRouteError.                      *)
(* This is the claim as stated; the loop "while cur_id!=0" keeps no record *)
(* of the motes it has been at.                                            *)
(***************************************************************************)
\* the motes on the way from mote cur along the recorded parents
RECURSIVE DaoChain(_, _)
DaoChain(cur, seen) ==
    IF cur \in seen THEN seen
    ELSE IF cur = DagRoot \/ cur \notin DOMAIN parentChildfromDAOs
    THEN seen \cup {cur}
    ELSE DaoChain(parentChildfromDAOs[cur], seen \cup {cur})

\* the way from the destination of the last packet never leaves the table
\* and never comes to the root
DaoChainCycles ==
    LET chain == DaoChain(lastSend.dstIp, {})
    IN /\ DagRoot \notin chain
       /\ \A m \in chain : /\ m \in DOMAIN parentChildfromDAOs
                           /\ parentChildfromDAOs[m] \in chain

\* the step is a call of sendPacket on the root
RootSendStep == lastSend' # lastSend

SourceRouteEnded ==
    /\ rootPc # "hang"
    /\ lastSend.route =
           IF DagRoot \in DaoChain(lastSend.dstIp, {})
           THEN "route" ELSE "NoSourceRouteError"

C39_SourceRouteEnds == [][RootSendStep => SourceRouteEnded']_vars

\* what the code does: the loop ends with a route when the chain reaches the
\* root and with NoSourceRouteError when it comes to a mote the table has no
\* parent for; on a cycle it does not end
SourceRouteEndedUnlessCycle ==
    /\ lastSend.route = "diverges" <=> DaoChainCycles
    /\ lastSend.route = "route" <=> DagRoot \in DaoChain(lastSend.dstIp, {})
    /\ lastSend.route \in {"diverges", "route", "NoSourceRouteError"}
    /\ rootPc = "hang" <=> DaoChainCycles

C39_EndsUnlessCycle == [][RootSendStep => SourceRouteEndedUnlessCycle']_vars

\* the root asked for the route to a mote whose recorded parents form a cycle
C39_CycleNeverEnds ==
    /\ rootPc = "hang"
    /\ lastSend.route = "diverges"
    /\ DaoChainCycles
    /\ Cardinality(DaoChain(lastSend.dstIp, {})) >= 2


\* the last _housekeeping ran in a mote that had a preferred parent which is
\* still an eligible candidate
ParentStillEligible ==
    /\ lastRpl.done
    /\ lastRpl.before.preferredParent # Nil
    /\ lastRpl.before.preferredParent[1] \in DOMAIN lastRpl.potential

\* by how much the best candidate's rank is below the rank through the parent
RankImprovement ==
    lastRpl.potential[lastRpl.before.preferredParent[1]]
        - RplSetMin({lastRpl.potential[n] : n \in DOMAIN lastRpl.potential})

ParentReplaced == lastRpl.chosen # lastRpl.before.preferredParent

(***************************************************************************)
(* C40: during RPL housekeeping the preferred parent is replaced only if   *)
(* the best candidate's rank is lower than the rank obtained through the   *)
(* current preferred parent by more than RPL_PARENT_SWITCH_THRESHOLD;      *)
(* while the current preferred parent is still an eligible candidate and   *)
(* the improvement does not exceed the threshold, it is kept.              *)
(* This is the claim as stated; the code gives the parent up when the      *)
(* improvement equals the threshold.                                       *)
(***************************************************************************)
C40_ReplacedOnlyAboveThreshold ==
    ParentStillEligible
        => /\ ParentReplaced => RankImprovement > RPL_PARENT_SWITCH_THRESHOLD
           /\ RankImprovement <= RPL_PARENT_SWITCH_THRESHOLD
                  => /\ lastRpl.chosen = lastRpl.before.preferredParent
                     /\ lastRpl.err = "none"

(***************************************************************************)
(* C40, what the code does: the preferred parent is kept while it is       *)
(* eligible and the improvement is below the threshold, and is given up    *)
(* only from the threshold on; giving it up raises AttributeError and      *)
(* leaves the RPL state as it was.                                         *)
(***************************************************************************)
C40_KeptBelowThreshold ==
    ParentStillEligible
        => /\ ParentReplaced => /\ RankImprovement >= RPL_PARENT_SWITCH_THRESHOLD
                                /\ lastRpl.err = "AttributeError"
                                /\ rplState = lastRpl.before
           /\ RankImprovement < RPL_PARENT_SWITCH_THRESHOLD
                  => /\ lastRpl.chosen = lastRpl.before.preferredParent
                     /\ lastRpl.err = "none"

\* the parent is given up for a candidate better by exactly the threshold
C40_ReplacedAtThreshold ==
    /\ ParentStillEligible
    /\ ParentReplaced
    /\ RankImprovement = RPL_PARENT_SWITCH_THRESHOLD

\* the parent is kept against a candidate that is better by less than the threshold
C40_KeptAgainstBetter ==
    /\ ParentStillEligible
    /\ ~ParentReplaced
    /\ RankImprovement > 0
    /\ RankImprovement < RPL_PARENT_SWITCH_THRESHOLD
=============================================================================
